---- MODULE Spec2Model ----
(***************************************************************************)
(* Model of the materials aggregation and dual-scoring engine of           *)
(* arcompanion (src/lib/utils/materials-aggregator.ts).                    *)
(*                                                                         *)
(* JavaScript numbers are modelled as exact rationals extended with the    *)
(* two IEEE-754 specials the code can produce, +Infinity and NaN.  Maps    *)
(* and Sets keep their insertion order and are modelled as sequences.      *)
(***************************************************************************)
EXTENDS Integers, Sequences, FiniteSets, TLC

(***************************************************************************)
(* Numbers                                                                 *)
(***************************************************************************)
RECURSIVE GCD(_, _)
GCD(a, b) == IF b = 0 THEN a ELSE GCD(b, a % b)

Abs(x) == IF x < 0 THEN 0 - x ELSE x

NaN == [k |-> "nan", n |-> 0, d |-> 1]

Infinity == [k |-> "inf", n |-> 1, d |-> 1]

\* the finite number n/d (d > 0), in lowest terms
Frac(n, d) ==
    LET g == GCD(Abs(n), d)
    IN  [k |-> "fin", n |-> n \div g, d |-> d \div g]

Num(i) == [k |-> "fin", n |-> i, d |-> 1]

IsNaN(a) == a.k = "nan"

IsFinite(a) == a.k = "fin"

IsZero(a) == a.k = "fin" /\ a.n = 0

\* the sign (-1, 0, 1) of n1/d1 - n2/d2 for n1, n2 >= 0 and d1, d2 > 0, found
\* by comparing integer parts and then the reciprocals of the remainders, so
\* that no product is formed
RECURSIVE CmpNonNeg(_, _, _, _)
CmpNonNeg(n1, d1, n2, d2) ==
    LET q1 == n1 \div d1
        q2 == n2 \div d2
        r1 == n1 % d1
        r2 == n2 % d2
    IN  IF q1 # q2 THEN (IF q1 > q2 THEN 1 ELSE -1)
        ELSE IF r1 = 0 /\ r2 = 0 THEN 0
        ELSE IF r1 = 0 THEN -1
        ELSE IF r2 = 0 THEN 1
        ELSE CmpNonNeg(d2, r2, d1, r1)

\* the sign of a - b for finite a and b
CmpFin(a, b) ==
    CASE a.n >= 0 /\ b.n >= 0 -> CmpNonNeg(a.n, a.d, b.n, b.d)
      [] a.n >= 0 /\ b.n < 0 -> 1
      [] a.n < 0 /\ b.n >= 0 -> -1
      [] OTHER -> CmpNonNeg(0 - b.n, b.d, 0 - a.n, a.d)

\* a > b and a >= b as JavaScript compares numbers (false when either is NaN)
Gt(a, b) ==
    CASE a.k = "nan" \/ b.k = "nan" -> FALSE
      [] a.k = "inf" -> b.k = "fin"
      [] b.k = "inf" -> FALSE
      [] OTHER -> CmpFin(a, b) > 0

Ge(a, b) ==
    CASE a.k = "nan" \/ b.k = "nan" -> FALSE
      [] a.k = "inf" -> TRUE
      [] b.k = "inf" -> FALSE
      [] OTHER -> CmpFin(a, b) >= 0

\* a + b
Add(a, b) ==
    CASE a.k = "nan" \/ b.k = "nan" -> NaN
      [] a.k = "inf" \/ b.k = "inf" -> Infinity
      [] OTHER -> LET g == GCD(a.d, b.d)
                  IN  Frac(a.n * (b.d \div g) + b.n * (a.d \div g),
                           (a.d \div g) * b.d)

\* a - b for a finite b (the operands of the code's subtractions outside the
\* sort comparators)
Sub(a, b) ==
    CASE a.k = "nan" \/ b.k = "nan" -> NaN
      [] a.k = "inf" -> Infinity
      [] OTHER -> LET g == GCD(a.d, b.d)
                  IN  Frac(a.n * (b.d \div g) - b.n * (a.d \div g),
                           (a.d \div g) * b.d)

\* the sign of b - a as Array.prototype.sort reads a comparator result:
\* a NaN difference (NaN operand, or Infinity - Infinity) counts as 0
CompareDesc(a, b) ==
    CASE a.k = "nan" \/ b.k = "nan" -> 0
      [] a.k = "inf" /\ b.k = "inf" -> 0
      [] Gt(b, a) -> 1
      [] Gt(a, b) -> -1
      [] OTHER -> 0

\* a * b, for operands that are never negative infinities
Mul(a, b) ==
    CASE a.k = "nan" \/ b.k = "nan" -> NaN
      [] a.k = "inf" -> IF IsZero(b) THEN NaN ELSE Infinity
      [] b.k = "inf" -> IF IsZero(a) THEN NaN ELSE Infinity
      [] OTHER -> LET g1 == GCD(Abs(a.n), b.d)
                      g2 == GCD(Abs(b.n), a.d)
                  IN  Frac((a.n \div g1) * (b.n \div g2),
                           (a.d \div g2) * (b.d \div g1))

\* a / b for a, b >= 0: 0/0 and Infinity/Infinity are NaN, x/0 is Infinity
Div(a, b) ==
    CASE a.k = "nan" \/ b.k = "nan" -> NaN
      [] a.k = "inf" -> IF b.k = "inf" THEN NaN ELSE Infinity
      [] b.k = "inf" -> Num(0)
      [] IsZero(b) -> IF IsZero(a) THEN NaN ELSE Infinity
      [] OTHER -> LET g1 == GCD(Abs(a.n), Abs(b.n))
                      g2 == GCD(a.d, b.d)
                      num == (a.n \div g1) * (b.d \div g2)
                      den == (a.d \div g2) * (b.n \div g1)
                  IN  IF den > 0 THEN Frac(num, den) ELSE Frac(0 - num, 0 - den)

\* Math.max(a, b): NaN when either argument is NaN
MathMax(a, b) ==
    CASE a.k = "nan" \/ b.k = "nan" -> NaN
      [] Ge(a, b) -> a
      [] OTHER -> b

\* Math.min(a, b)
MathMin(a, b) ==
    CASE a.k = "nan" \/ b.k = "nan" -> NaN
      [] Ge(a, b) -> b
      [] OTHER -> a

\* mutant: the quotient is truncated (Math.floor)
MathFloorDiv(t, n) == t \div n

\* Math.round of the non-negative quotient t / n of two integers, n > 0:
\* floor(t / n + 1/2)
MathRound(t, n) == (2 * t + n) \div (2 * n)

\* Math.pow(b, e) for an integer exponent e >= -1
RECURSIVE MathPow(_, _)
MathPow(b, e) ==
    IF e < 0 THEN Div(Num(1), b)
    ELSE IF e = 0 THEN Num(1)
    ELSE Mul(b, MathPow(b, e - 1))

(***************************************************************************)
(* Insertion-ordered Map<K, V>: a sequence of [k, v] entries               *)
(***************************************************************************)
MapHas(m, key) == \E i \in 1..Len(m) : m[i].k = key

MapGet(m, key) == m[CHOOSE i \in 1..Len(m) : m[i].k = key].v

\* Map.prototype.set: an existing key keeps its position
MapSet(m, key, val) ==
    IF MapHas(m, key)
    THEN [i \in 1..Len(m) |-> IF m[i].k = key THEN [k |-> key, v |-> val] ELSE m[i]]
    ELSE Append(m, [k |-> key, v |-> val])

MapKeys(m) == [i \in 1..Len(m) |-> m[i].k]

MapValues(m) == [i \in 1..Len(m) |-> m[i].v]

SeqHas(s, x) == \E i \in 1..Len(s) : s[i] = x

\* Set.prototype.add on an insertion-ordered Set
SetAdd(s, x) == IF SeqHas(s, x) THEN s ELSE Append(s, x)

Range(s) == {s[i] : i \in 1..Len(s)}

RECURSIVE SumSeq(_)
SumSeq(s) == IF s = <<>> THEN 0 ELSE Head(s) + SumSeq(Tail(s))

(***************************************************************************)
(* The item/recipe store and its queries                                   *)
(***************************************************************************)
\* mutant: the recipes of the item's ingredients are fetched as well
QueryRecipesTransitive(db, itemId) ==
    LET direct == SelectSeq(db.crafting_recipes, LAMBDA r : r.item_id = itemId)
        indirect == SelectSeq(db.crafting_recipes, LAMBDA r :
                        \E i \in 1..Len(direct) : direct[i].ingredient_id = r.item_id)
    IN  direct \o indirect

\* db.query('SELECT * FROM crafting_recipes WHERE item_id = ?')
QueryRecipes(db, itemId) ==
    SelectSeq(db.crafting_recipes, LAMBDA r : r.item_id = itemId)

\* db.queryOne('SELECT * FROM items WHERE id = ?'): <<>> when undefined,
\* otherwise the one-element sequence holding the row
QueryItem(db, id) ==
    LET rows == SelectSeq(db.items, LAMBDA r : r.id = id)
    IN  IF rows = <<>> THEN <<>> ELSE <<rows[1]>>

\* SELECT so.*, i.* FROM <table> so JOIN items i ON so.item_id = i.id
\*  WHERE so.output_id = ? AND so.item_id NOT IN (excluded)
QueryOutputs(db, table, materialId, excludedIds) ==
    LET hits == SelectSeq(table, LAMBDA r :
                    /\ r.output_id = materialId
                    /\ r.item_id \notin excludedIds
                    /\ QueryItem(db, r.item_id) # <<>>)
    IN  [i \in 1..Len(hits) |->
            [item |-> QueryItem(db, hits[i].item_id)[1],
             quantity |-> hits[i].quantity]]

(***************************************************************************)
(* Constants and helpers of materials-aggregator.ts                        *)
(***************************************************************************)
SCRAPPY_MATERIALS ==
    {"metal_parts", "fabric", "plastic_parts", "chemicals", "rubber_parts",
     "assorted_seeds"}

Rarities == {"Common", "Uncommon", "Rare", "Epic", "Legendary"}

\* mutant: no rarity is penalised
RARITY_SALVAGE_PENALTYFlat(rarity) == Num(1)

\* RARITY_SALVAGE_PENALTY[rarity] || 1.0
RARITY_SALVAGE_PENALTY(rarity) ==
    CASE rarity = "Common" -> Num(1)
      [] rarity = "Uncommon" -> Frac(9, 10)
      [] rarity = "Rare" -> Frac(8, 10)
      [] rarity = "Epic" -> Frac(7, 10)
      [] rarity = "Legendary" -> Frac(6, 10)
      [] OTHER -> Num(1)

\* RARITY_RECYCLE_BONUS[rarity] || 1.0
RARITY_RECYCLE_BONUS(rarity) ==
    CASE rarity = "Common" -> Num(1)
      [] rarity = "Uncommon" -> Frac(11, 10)
      [] rarity = "Rare" -> Frac(115, 100)
      [] rarity = "Epic" -> Frac(12, 10)
      [] rarity = "Legendary" -> Frac(125, 100)
      [] OTHER -> Num(1)

IMMEDIACY_BONUS == Frac(12, 10)

RECYCLING_THRESHOLD == Num(2)

COMPLEXITY_PENALTY == Frac(85, 100)

SLOT_EFFICIENCY_WEIGHT == Frac(3, 10)

DEFAULT_STACK_SIZE == 1

multiMaterialBonus(numMaterials) == MathPow(Frac(115, 100), numMaterials - 1)

carryWeightPenalty(weight) ==
    MathMax(Frac(3, 10), Sub(Num(1), Div(weight, Num(10))))

valueBonus(value) ==
    MathMin(Frac(13, 10), Add(Num(1), Mul(Div(Num(value), Num(5000)), Frac(1, 10))))

\* stack_size ?? DEFAULT_STACK_SIZE; a null stack_size is the empty sequence
StackSizeOf(item) ==
    IF item.stack_size = <<>> THEN DEFAULT_STACK_SIZE ELSE item.stack_size[1]

calculateSlotEfficiency(item, outputYields, db) ==
    LET itemStackSize == StackSizeOf(item)
        totalQuantity == SumSeq(MapValues(outputYields))
        stackOf(materialId) ==
            LET materialItem == QueryItem(db, materialId)
            IN  IF materialItem = <<>> THEN DEFAULT_STACK_SIZE
                ELSE StackSizeOf(materialItem[1])
        weightedStackSum ==
            SumSeq([i \in 1..Len(outputYields) |->
                        stackOf(outputYields[i].k) * outputYields[i].v])
        avgOutputStack == Div(Num(weightedStackSum), Num(totalQuantity))
    IN  IF Len(outputYields) = 0 THEN Num(1)
        ELSE Div(avgOutputStack, Num(itemStackSize))

TierTokens == {"I", "II", "III", "IV"}

\* mutant: the tier suffix is kept
getBaseNameWithTier(name) == name

\* name.replace(/\s+(I|II|III|IV)$/, ''); a name is its sequence of
\* whitespace-separated tokens
getBaseName(name) ==
    IF Len(name) > 1 /\ name[Len(name)] \in TierTokens
    THEN SubSeq(name, 1, Len(name) - 1)
    ELSE name

\* mutant: the Scrappy filter is not applied
shouldIncludeMaterialRarityOnly(material, fo) ==
    material.rarity \in fo.rarityFilters

\* mutant: the rarity filter is not applied
shouldIncludeMaterialScrappyOnly(material, fo) ==
    ~(fo.hideScrappyCollected /\ material.id \in SCRAPPY_MATERIALS)

shouldIncludeMaterial(material, fo) ==
    IF material.rarity \notin fo.rarityFilters THEN FALSE
    ELSE IF fo.hideScrappyCollected /\ material.id \in SCRAPPY_MATERIALS THEN FALSE
    ELSE TRUE

\* Array.prototype.sort((a, b) => key(b) - key(a)) on a sequence of [key, val]
\* entries: a stable insertion sort (the comparator result NaN counts as 0)
RECURSIVE InsertSorted(_, _)
InsertSorted(sorted, x) ==
    IF sorted = <<>> THEN <<x>>
    ELSE IF CompareDesc(sorted[Len(sorted)].key, x.key) > 0
         THEN Append(InsertSorted(SubSeq(sorted, 1, Len(sorted) - 1), x),
                     sorted[Len(sorted)])
         ELSE Append(sorted, x)

RECURSIVE SortKeyed(_)
SortKeyed(s) ==
    IF s = <<>> THEN <<>>
    ELSE InsertSorted(SortKeyed(SubSeq(s, 1, Len(s) - 1)), s[Len(s)])

\* materials.sort((a, b) => b.totalQuantity - a.totalQuantity)
SortMaterials(ms) ==
    LET keyed == [i \in 1..Len(ms) |-> [key |-> Num(ms[i].totalQuantity), val |-> ms[i]]]
        sorted == SortKeyed(keyed)
    IN  [i \in 1..Len(sorted) |-> sorted[i].val]

\* salvageSources.sort((a, b) => b.salvageScore - a.salvageScore)
SortBySalvageScore(ss) ==
    LET keyed == [i \in 1..Len(ss) |-> [key |-> ss[i].salvageScore, val |-> ss[i]]]
        sorted == SortKeyed(keyed)
    IN  [i \in 1..Len(sorted) |-> sorted[i].val]

\* recycleSources.sort((a, b) => b.recycleScore - a.recycleScore)
SortByRecycleScore(ss) ==
    LET keyed == [i \in 1..Len(ss) |-> [key |-> ss[i].recycleScore, val |-> ss[i]]]
        sorted == SortKeyed(keyed)
    IN  [i \in 1..Len(sorted) |-> sorted[i].val]

(***************************************************************************)
(* aggregateMaterials, Steps 1-2: the material demand resolver             *)
(***************************************************************************)
\* mutant: the quantity is stored instead of added to the running total
Step1RecipeOverwrite(acc, itemId, recipe, db, fo) ==
    LET ing == recipe.ingredient_id
        found == QueryItem(db, ing)
        items1 == IF ~MapHas(acc.items, ing) /\ found # <<>>
                  THEN MapSet(acc.items, ing, found[1])
                  ELSE acc.items
        currentSet == IF MapHas(acc.reqBy, ing) THEN MapGet(acc.reqBy, ing) ELSE <<>>
    IN  IF ~MapHas(items1, ing) \/ ~shouldIncludeMaterial(MapGet(items1, ing), fo)
        THEN [acc EXCEPT !.items = items1]
        ELSE [items |-> items1,
              qty |-> MapSet(acc.qty, ing, recipe.quantity),
              reqBy |-> MapSet(acc.reqBy, ing, SetAdd(currentSet, itemId))]

\* mutant: an ingredient without an items row is aggregated, not skipped
Step1RecipeKeepDangling(acc, itemId, recipe, db, fo) ==
    LET ing == recipe.ingredient_id
        found == QueryItem(db, ing)
        items1 == IF ~MapHas(acc.items, ing) /\ found # <<>>
                  THEN MapSet(acc.items, ing, found[1])
                  ELSE acc.items
        currentQuantity == IF MapHas(acc.qty, ing) THEN MapGet(acc.qty, ing) ELSE 0
        currentSet == IF MapHas(acc.reqBy, ing) THEN MapGet(acc.reqBy, ing) ELSE <<>>
    IN  IF MapHas(items1, ing) /\ ~shouldIncludeMaterial(MapGet(items1, ing), fo)
        THEN [acc EXCEPT !.items = items1]
        ELSE [items |-> items1,
              qty |-> MapSet(acc.qty, ing, currentQuantity + recipe.quantity),
              reqBy |-> MapSet(acc.reqBy, ing, SetAdd(currentSet, itemId))]

\* one iteration of the inner loop over a bookmark's recipes
Step1Recipe(acc, itemId, recipe, db, fo) ==
    LET ing == recipe.ingredient_id
        found == QueryItem(db, ing)
        items1 == IF ~MapHas(acc.items, ing) /\ found # <<>>
                  THEN MapSet(acc.items, ing, found[1])
                  ELSE acc.items
        currentQuantity == IF MapHas(acc.qty, ing) THEN MapGet(acc.qty, ing) ELSE 0
        currentSet == IF MapHas(acc.reqBy, ing) THEN MapGet(acc.reqBy, ing) ELSE <<>>
    IN  IF ~MapHas(items1, ing) \/ ~shouldIncludeMaterial(MapGet(items1, ing), fo)
        THEN [acc EXCEPT !.items = items1]
        ELSE [items |-> items1,
              qty |-> MapSet(acc.qty, ing, currentQuantity + recipe.quantity),
              reqBy |-> MapSet(acc.reqBy, ing, SetAdd(currentSet, itemId))]

RECURSIVE Step1Recipes(_, _, _, _, _)
Step1Recipes(acc, itemId, recipes, db, fo) ==
    IF recipes = <<>> THEN acc
    ELSE Step1Recipes(Step1Recipe(acc, itemId, Head(recipes), db, fo),
                      itemId, Tail(recipes), db, fo)

\* mutant: a paused bookmark is aggregated like any other
Step1BookmarkIgnoringPause(acc, itemId, db, fo) ==
    Step1Recipes(acc, itemId, QueryRecipes(db, itemId), db, fo)

\* one iteration of the loop over bookmarkedIds: a paused bookmark is skipped
Step1Bookmark(acc, itemId, db, fo) ==
    IF itemId \in fo.pausedBookmarks THEN acc
    ELSE Step1Recipes(acc, itemId, QueryRecipes(db, itemId), db, fo)

\* the loop over bookmarkedIds
RECURSIVE Step1(_, _, _, _)
Step1(acc, ids, db, fo) ==
    IF ids = <<>> THEN acc
    ELSE Step1(Step1Bookmark(acc, Head(ids), db, fo), Tail(ids), db, fo)

EmptyDemand == [items |-> <<>>, qty |-> <<>>, reqBy |-> <<>>]

\* materialQuantityMap, materialRequiredByMap and materialItemsMap after Step 1
ResolveDemand(ids, db, fo) == Step1(EmptyDemand, ids, db, fo)

\* Step 2: the MaterialRequirement array, sorted by quantity descending
BuildMaterials(dem) ==
    LET present == SelectSeq(dem.qty, LAMBDA e : MapHas(dem.items, e.k))
    IN  SortMaterials(
            [i \in 1..Len(present) |->
                [item |-> MapGet(dem.items, present[i].k),
                 totalQuantity |-> present[i].v,
                 requiredBy |-> IF MapHas(dem.reqBy, present[i].k)
                                THEN MapGet(dem.reqBy, present[i].k) ELSE <<>>]])

(***************************************************************************)
(* Step 3: source discovery and tier grouping                              *)
(***************************************************************************)
\* mutant: the materials are left out of the exclusion set
ExcludedIdsWithoutMaterials(ids, dem, fo) == Range(ids) \cup fo.hiddenSourceItems

\* mutant: the keys of materialItemsMap (every ingredient that was looked up,
\* filtered ones included) are excluded instead of those of materialQuantityMap
ExcludedIdsWithLookedUp(ids, dem, fo) ==
    Range(ids) \cup Range(MapKeys(dem.items)) \cup fo.hiddenSourceItems

\* new Set([...bookmarkedIdsArray, ...materialIds, ...hiddenSourceItems])
ExcludedIds(ids, dem, fo) ==
    Range(ids) \cup Range(MapKeys(dem.qty)) \cup fo.hiddenSourceItems

\* the body of the loop over one query's rows; kind is "salvage" or "recycle"
AddSource(groups, source, materialId, kind) ==
    LET baseName == getBaseName(source.item.name)
        group == IF MapHas(groups, baseName) THEN MapGet(groups, baseName)
                 ELSE [items |-> <<>>, salvageYieldsMap |-> <<>>,
                       recycleYieldsMap |-> <<>>, baseName |-> baseName]
        items1 == IF \E i \in 1..Len(group.items) : group.items[i].id = source.item.id
                  THEN group.items
                  ELSE Append(group.items, source.item)
        ymap == IF kind = "salvage" THEN group.salvageYieldsMap
                ELSE group.recycleYieldsMap
        currentYield == IF MapHas(ymap, materialId) THEN MapGet(ymap, materialId) ELSE 0
        ymap1 == MapSet(ymap, materialId, currentYield + source.quantity)
    IN  MapSet(groups, baseName,
               IF kind = "salvage"
               THEN [group EXCEPT !.items = items1, !.salvageYieldsMap = ymap1]
               ELSE [group EXCEPT !.items = items1, !.recycleYieldsMap = ymap1])

RECURSIVE AddSources(_, _, _, _)
AddSources(groups, sources, materialId, kind) ==
    IF sources = <<>> THEN groups
    ELSE AddSources(AddSource(groups, Head(sources), materialId, kind),
                    Tail(sources), materialId, kind)

\* the loop over materialIds issuing one output query per material
RECURSIVE QueryLoop(_, _, _, _, _)
QueryLoop(groups, materialIds, db, excl, kind) ==
    IF materialIds = <<>> THEN groups
    ELSE QueryLoop(
            AddSources(groups,
                       QueryOutputs(db, IF kind = "salvage" THEN db.salvaging_outputs
                                        ELSE db.recycling_outputs,
                                    Head(materialIds), excl),
                       Head(materialIds), kind),
            Tail(materialIds), db, excl, kind)

\* groupedSources after the salvaging and then the recycling queries
GroupSources(ids, dem, db, fo) ==
    LET materialIds == MapKeys(dem.qty)
        excl == ExcludedIds(ids, dem, fo)
    IN  QueryLoop(QueryLoop(<<>>, materialIds, db, excl, "salvage"),
                  materialIds, db, excl, "recycle")

(***************************************************************************)
(* Step 4: dual scoring                                                    *)
(***************************************************************************)
\* average yields across the tier variants, kept for demanded materials only
AverageYields(yieldsMap, nItems, materialQuantityMap) ==
    LET kept == SelectSeq(yieldsMap, LAMBDA e : MapHas(materialQuantityMap, e.k))
    IN  [i \in 1..Len(kept) |-> [k |-> kept[i].k, v |-> MathRound(kept[i].v, nItems)]]

RECURSIVE SumNum(_)
SumNum(s) == IF s = <<>> THEN Num(0) ELSE Add(Head(s), SumNum(Tail(s)))

\* salvageBaseScore / recycleBaseScore
BaseScore(avgYields, materialQuantityMap, totalDemand) ==
    IF totalDemand > 0 /\ SumSeq(MapValues(avgYields)) > 0
    THEN SumNum([i \in 1..Len(avgYields) |->
            LET userNeeds == IF MapHas(materialQuantityMap, avgYields[i].k)
                             THEN MapGet(materialQuantityMap, avgYields[i].k) ELSE 0
                demandWeight == Div(Num(userNeeds), Num(totalDemand))
            IN  Mul(Num(avgYields[i].v), demandWeight)])
    ELSE Num(0)

\* totalYieldWeight: the weight of the salvage yields
TotalYieldWeight(avgSalvageYields, db) ==
    SumNum([i \in 1..Len(avgSalvageYields) |->
        LET materialItem == QueryItem(db, avgSalvageYields[i].k)
        IN  IF materialItem = <<>> THEN Num(0)
            ELSE Mul(Num(avgSalvageYields[i].v), materialItem[1].weight_kg)])

\* Math.max(1.0, 1 + (slotEfficiency - 1) * SLOT_EFFICIENCY_WEIGHT)
SlotBonus(item, yields, db) ==
    LET slotEfficiency == calculateSlotEfficiency(item, yields, db)
    IN  MathMax(Num(1), Add(Num(1), Mul(Sub(slotEfficiency, Num(1)),
                                        SLOT_EFFICIENCY_WEIGHT)))

\* effectiveWeight: the yield weight, or the representative's own weight
EffectiveWeight(representativeItem, avgSalvageYields, db) ==
    LET totalYieldWeight == TotalYieldWeight(avgSalvageYields, db)
    IN  IF Gt(totalYieldWeight, Num(0)) THEN totalYieldWeight
        ELSE representativeItem.weight_kg

\* mutant: the scoring method is ignored
WeightFactorLinear(effectiveWeight, method) == effectiveWeight

WeightFactor(effectiveWeight, method) ==
    IF method = "weight_conscious" THEN MathPow(effectiveWeight, 2)
    ELSE effectiveWeight

SalvageScore(representativeItem, avgSalvageYields, materialQuantityMap, totalDemand, db, method) ==
    LET salvageBaseScore == BaseScore(avgSalvageYields, materialQuantityMap, totalDemand)
        effectiveWeight == EffectiveWeight(representativeItem, avgSalvageYields, db)
        weightFactor == WeightFactor(effectiveWeight, method)
        salvageScore == Mul(Mul(Div(salvageBaseScore, weightFactor),
                                RARITY_SALVAGE_PENALTY(representativeItem.rarity)),
                            IMMEDIACY_BONUS)
    IN  Mul(salvageScore, SlotBonus(representativeItem, avgSalvageYields, db))

\* mutant: the value bonus and the carry weight penalty apply in both modes
RecycleScoreFullFormula(representativeItem, avgRecycleYields, materialQuantityMap, totalDemand, db, method) ==
    LET recycleBaseScore == BaseScore(avgRecycleYields, materialQuantityMap, totalDemand)
        w == representativeItem.weight_kg
        divisor == IF method = "max_yield" THEN w ELSE MathPow(w, 2)
        recycleScore ==
            Mul(Mul(Mul(Mul(Mul(Div(recycleBaseScore, divisor),
                                RARITY_RECYCLE_BONUS(representativeItem.rarity)),
                            multiMaterialBonus(Len(avgRecycleYields))),
                        carryWeightPenalty(w)),
                    valueBonus(representativeItem.value)),
                COMPLEXITY_PENALTY)
    IN  Mul(recycleScore, SlotBonus(representativeItem, avgRecycleYields, db))

RecycleScore(representativeItem, avgRecycleYields, materialQuantityMap, totalDemand, db, method) ==
    LET recycleBaseScore == BaseScore(avgRecycleYields, materialQuantityMap, totalDemand)
        w == representativeItem.weight_kg
        recycleScore ==
            IF method = "max_yield"
            THEN Mul(Mul(Mul(Div(recycleBaseScore, w),
                             RARITY_RECYCLE_BONUS(representativeItem.rarity)),
                         multiMaterialBonus(Len(avgRecycleYields))),
                     COMPLEXITY_PENALTY)
            ELSE Mul(Mul(Mul(Mul(Mul(Div(recycleBaseScore, MathPow(w, 2)),
                                     RARITY_RECYCLE_BONUS(representativeItem.rarity)),
                                 multiMaterialBonus(Len(avgRecycleYields))),
                             carryWeightPenalty(w)),
                         valueBonus(representativeItem.value)),
                     COMPLEXITY_PENALTY)
    IN  Mul(recycleScore, SlotBonus(representativeItem, avgRecycleYields, db))

\* mutant: the last member found stands for the group
ScoreGroupLastMember(group, dem, db, method) ==
    LET representativeItem == group.items[Len(group.items)]
        totalDemand == SumSeq(MapValues(dem.qty))
        avgSalvageYields == AverageYields(group.salvageYieldsMap, Len(group.items), dem.qty)
        avgRecycleYields == AverageYields(group.recycleYieldsMap, Len(group.items), dem.qty)
    IN  [item |-> representativeItem,
         salvageYields |-> avgSalvageYields,
         recycleYields |-> avgRecycleYields,
         salvageScore |-> SalvageScore(representativeItem, avgSalvageYields, dem.qty,
                                       totalDemand, db, method),
         recycleScore |-> RecycleScore(representativeItem, avgRecycleYields, dem.qty,
                                       totalDemand, db, method),
         baseName |-> group.baseName]

\* one SalvagingSource per group
ScoreGroup(group, dem, db, method) ==
    LET representativeItem == group.items[1]
        totalDemand == SumSeq(MapValues(dem.qty))
        avgSalvageYields == AverageYields(group.salvageYieldsMap, Len(group.items), dem.qty)
        avgRecycleYields == AverageYields(group.recycleYieldsMap, Len(group.items), dem.qty)
    IN  [item |-> representativeItem,
         salvageYields |-> avgSalvageYields,
         recycleYields |-> avgRecycleYields,
         salvageScore |-> SalvageScore(representativeItem, avgSalvageYields, dem.qty,
                                       totalDemand, db, method),
         recycleScore |-> RecycleScore(representativeItem, avgRecycleYields, dem.qty,
                                       totalDemand, db, method),
         baseName |-> group.baseName]

\* allSources: groups without any salvaging or recycling data are skipped
ScoreSources(groups, dem, db, method) ==
    LET withData == SelectSeq(MapValues(groups), LAMBDA g :
                        ~(Len(g.salvageYieldsMap) = 0 /\ Len(g.recycleYieldsMap) = 0))
    IN  [i \in 1..Len(withData) |-> ScoreGroup(withData[i], dem, db, method)]

(***************************************************************************)
(* Step 5: bucket partition                                                *)
(***************************************************************************)
\* mutant: the threshold test written with >=
ExceedsThresholdInclusive(recyclingAdvantage) == Ge(recyclingAdvantage, RECYCLING_THRESHOLD)

\* recyclingAdvantage > RECYCLING_THRESHOLD
ExceedsThreshold(recyclingAdvantage) == Gt(recyclingAdvantage, RECYCLING_THRESHOLD)

\* mutant: the two forced branches push to the wrong list
BucketSwapped(source) ==
    IF IsZero(source.salvageScore) /\ IsZero(source.recycleScore) THEN "drop"
    ELSE IF IsZero(source.salvageScore) /\ Gt(source.recycleScore, Num(0)) THEN "salvage"
    ELSE IF IsZero(source.recycleScore) /\ Gt(source.salvageScore, Num(0)) THEN "recycle"
    ELSE IF Gt(Div(source.recycleScore, source.salvageScore), RECYCLING_THRESHOLD)
         THEN "recycle"
    ELSE "salvage"

\* "drop", "recycle" or "salvage": the branch the loop body takes for a source
Bucket(source) ==
    IF IsZero(source.salvageScore) /\ IsZero(source.recycleScore) THEN "drop"
    ELSE IF IsZero(source.salvageScore) /\ Gt(source.recycleScore, Num(0)) THEN "recycle"
    ELSE IF IsZero(source.recycleScore) /\ Gt(source.salvageScore, Num(0)) THEN "salvage"
    ELSE IF ExceedsThreshold(Div(source.recycleScore, source.salvageScore)) THEN "recycle"
    ELSE "salvage"

(***************************************************************************)
(* Step 6: relationship maps                                               *)
(***************************************************************************)
\* the keys of new Map([...source.salvageYields, ...source.recycleYields])
RECURSIVE Dedup(_)
Dedup(s) ==
    IF s = <<>> THEN <<>>
    ELSE SetAdd(Dedup(SubSeq(s, 1, Len(s) - 1)), s[Len(s)])

AllYieldKeys(source) == Dedup(MapKeys(source.salvageYields) \o MapKeys(source.recycleYields))

\* the inner loop: record sourceId under every material it yields
RECURSIVE IndexMaterials(_, _, _)
IndexMaterials(m2s, keys, sourceId) ==
    IF keys = <<>> THEN m2s
    ELSE LET cur == IF MapHas(m2s, Head(keys)) THEN MapGet(m2s, Head(keys)) ELSE <<>>
         IN  IndexMaterials(MapSet(m2s, Head(keys), SetAdd(cur, sourceId)),
                            Tail(keys), sourceId)

\* mutant: sourceToMaterials records the salvage yields only
IndexSourceSalvageOnly(idx, source) ==
    [materialToSources |-> IndexMaterials(idx.materialToSources, AllYieldKeys(source),
                                          source.item.id),
     sourceToMaterials |-> MapSet(idx.sourceToMaterials, source.item.id,
                                  MapKeys(source.salvageYields))]

\* mutant: the source id is put at the front of materialToSources[material]
IndexSourcePrepending(idx, source) ==
    LET keys == AllYieldKeys(source)
        old == idx.materialToSources
        updated == [i \in 1..Len(old) |->
                       IF SeqHas(keys, old[i].k)
                       THEN [k |-> old[i].k, v |-> <<source.item.id>> \o old[i].v]
                       ELSE old[i]]
        fresh == SelectSeq(keys, LAMBDA key : ~MapHas(old, key))
    IN  [materialToSources |->
             updated \o [i \in 1..Len(fresh) |-> [k |-> fresh[i], v |-> <<source.item.id>>]],
         sourceToMaterials |-> MapSet(idx.sourceToMaterials, source.item.id, Dedup(keys))]

\* one iteration of the loop over [...salvageSources, ...recycleSources]
IndexSource(idx, source) ==
    LET keys == AllYieldKeys(source)
    IN  [materialToSources |-> IndexMaterials(idx.materialToSources, keys,
                                              source.item.id),
         sourceToMaterials |-> MapSet(idx.sourceToMaterials, source.item.id,
                                      Dedup(keys))]

RECURSIVE BuildIndex(_, _)
BuildIndex(idx, sources) ==
    IF sources = <<>> THEN idx
    ELSE BuildIndex(IndexSource(idx, Head(sources)), Tail(sources))

(***************************************************************************)
(* aggregateMaterials: data is the value returned; materialQuantityMap and *)
(* allSources are the call's local variables of that name when it returns  *)
(***************************************************************************)
aggregateMaterials(ids, db, method, fo) ==
    LET dem == ResolveDemand(ids, db, fo)
        materials == BuildMaterials(dem)
        groupedSources == GroupSources(ids, dem, db, fo)
        allSources == ScoreSources(groupedSources, dem, db, method)
        salvageSources ==
            SortBySalvageScore(SelectSeq(allSources, LAMBDA x : Bucket(x) = "salvage"))
        recycleSources ==
            SortByRecycleScore(SelectSeq(allSources, LAMBDA x : Bucket(x) = "recycle"))
        idx == BuildIndex([materialToSources |-> <<>>, sourceToMaterials |-> <<>>],
                          salvageSources \o recycleSources)
    IN  [data |-> [materials |-> materials,
                   salvageSources |-> salvageSources,
                   recycleSources |-> recycleSources,
                   materialToSources |-> idx.materialToSources,
                   sourceToMaterials |-> idx.sourceToMaterials],
         materialQuantityMap |-> dem.qty,
         allSources |-> allSources]

(***************************************************************************)
(* The catalog: rows of the items, crafting_recipes, salvaging_outputs and *)
(* recycling_outputs tables, in table order                                *)
(***************************************************************************)
\* largest number of bookmarks in a bookmark set
MaxBookmarks == 2

Item(id, name, rarity, value, weight, stack) ==
    [id |-> id, name |-> name, rarity |-> rarity, value |-> value,
     weight_kg |-> weight, stack_size |-> stack]

Edge(item, output, quantity) ==
    [item_id |-> item, output_id |-> output, quantity |-> quantity]

Recipe(item, ingredient, quantity) ==
    [item_id |-> item, ingredient_id |-> ingredient, quantity |-> quantity]

\* quantity of the salvage edges anvil_i -> metal_parts and scrap -> wires
SalvageQuantities == {1, 2}

\* weight_kg of the source items "scrap" and "anvil_i" (0 is parseItem's default)
SourceWeights == {Num(0), Num(2), Frac(17, 4)}

\* weight_kg of the two materials
MaterialWeights == {Num(0), Frac(1, 2), Num(1)}

\* a database: q is the quantity of two salvage edges, sw and mw are weights
Catalog(q, sw, mw) ==
    [items |-> <<
        Item("gadget", <<"Gadget">>, "Epic", 5000, Num(3), <<>>),
        Item("lamp", <<"Lamp">>, "Legendary", 5000, Num(1), <<>>),
        Item("anvil_i", <<"Anvil", "I">>, "Uncommon", 5000, sw, <<>>),
        Item("anvil_ii", <<"Anvil", "II">>, "Rare", 5000, Num(2), <<>>),
        Item("anvil_iii", <<"Anvil", "III">>, "Epic", 50000, Num(1), <<2>>),
        Item("scrap", <<"Scrap">>, "Common", 0, sw, <<3>>),
        Item("metal_parts", <<"Metal", "Parts">>, "Common", 100, mw, <<10>>),
        Item("wires", <<"Wires">>, "Rare", 500, mw, <<>>) >>,
     crafting_recipes |-> <<
        Recipe("gadget", "metal_parts", 3),
        Recipe("gadget", "wires", 2),
        Recipe("gadget", "ghost", 1),
        Recipe("lamp", "wires", 5),
        Recipe("anvil_ii", "metal_parts", 2),
        Recipe("wires", "metal_parts", 1) >>,
     salvaging_outputs |-> <<
        Edge("anvil_i", "metal_parts", q),
        Edge("anvil_ii", "metal_parts", 1),
        Edge("anvil_iii", "wires", 1),
        Edge("scrap", "wires", q),
        Edge("wires", "metal_parts", 1),
        Edge("gadget", "wires", 1) >>,
     recycling_outputs |-> <<
        Edge("scrap", "metal_parts", 2),
        Edge("scrap", "wires", 12),
        Edge("anvil_i", "wires", 6),
        Edge("anvil_iii", "metal_parts", 1) >> ]

Catalogs ==
    {Catalog(q, sw, mw) : q \in SalvageQuantities, sw \in SourceWeights, mw \in MaterialWeights}

\* the items a user bookmarks
BookmarkCandidates == {"gadget", "lamp", "anvil_ii"}

\* a Set<string> of bookmarks in insertion order: no id twice
BookmarkSets ==
    {s \in UNION {[1..n -> BookmarkCandidates] : n \in 0..MaxBookmarks} :
        \A i, j \in 1..Len(s) : i # j => s[i] # s[j]}

ScoringMethods == {"max_yield", "weight_conscious"}

RarityFilterChoices == {Rarities, Rarities \ {"Rare"}}

HiddenChoices == {{}, {"scrap"}}

\* nothing paused, the first bookmark paused, or every bookmark paused
PausedChoices(ids) ==
    {{}, Range(ids)} \cup (IF ids = <<>> THEN {} ELSE {{ids[1]}})

FilterOptions(ids) ==
    [hideScrappyCollected : BOOLEAN,
     rarityFilters : RarityFilterChoices,
     hiddenSourceItems : HiddenChoices,
     pausedBookmarks : PausedChoices(ids)]

(***************************************************************************)
(* State: the inputs of aggregateMaterials and the data derived from them  *)
(***************************************************************************)
VARIABLES
    store,           \* the database contents
    bookmarkedIds,   \* the bookmark Set, in insertion order
    scoringMethod,   \* "max_yield" or "weight_conscious"
    filterOptions,   \* MaterialFilterOptions
    aggregatedData,  \* <<>> before the call, <<result>> after it
    callLocals,      \* <<>>, or <<[materialQuantityMap, allSources]>> of the call
    previousData,    \* <<>>, or <<[method, data]>>: the result under the
                     \* scoring method that was selected before the last switch
    dbStatus,        \* DatabaseStore.status: "loading", "ready" or "error"
    dbHandle,        \* DatabaseStore.db is set (not null)
    initPc,          \* the await at which DatabaseStore.initialize() stands
    invokedWith,     \* the [status, handle] under which aggregateMaterials was invoked
    gridEffectPending, \* MaterialsGrid's $effect is scheduled to run
    saveTimer,       \* SettingsStore.saveTimer: <<>> (null) or <<timer id>>
    pendingTimers,   \* the timeouts that are scheduled and neither fired nor cleared
    effectPending,   \* the auto-save $effect is scheduled to run
    storage,         \* localStorage['arcompanion-settings']: <<>> or <<string>>
    lastSaveOk,      \* the last localStorage.setItem did not throw
    loads,           \* the number of page reloads so far
    pausedItems,     \* _settings.bookmarks.pausedItems, the stored array
    hoverStore,      \* the four fields of HoverStore; null is <<>>, an id is <<id>>
    importResult     \* <<>>, or <<the value the last importSettings call returned>>

appVars == <<dbStatus, dbHandle, initPc, invokedWith, gridEffectPending, saveTimer,
             pendingTimers, effectPending, storage, lastSaveOk, loads, pausedItems,
             hoverStore, importResult>>

vars == <<store, bookmarkedIds, scoringMethod, filterOptions, aggregatedData,
          callLocals, previousData, dbStatus, dbHandle, initPc, invokedWith,
          gridEffectPending, saveTimer, pendingTimers, effectPending, storage, lastSaveOk, loads,
          pausedItems, hoverStore, importResult>>

\* HoverStore after construction and after clearAll(): every field null
NoHover ==
    [hoveredBookmarkId |-> <<>>, hoveredMaterialId |-> <<>>,
     hoveredSourceId |-> <<>>, hoveredSourceType |-> <<>>]

Init ==
    /\ store \in Catalogs
    /\ bookmarkedIds \in BookmarkSets
    /\ scoringMethod = "max_yield"
    /\ filterOptions \in FilterOptions(bookmarkedIds)
    /\ aggregatedData = <<>>
    /\ callLocals = <<>>
    /\ previousData = <<>>
    /\ dbStatus = "ready"
    /\ dbHandle = TRUE
    /\ initPc = "done"
    /\ invokedWith = {}
    /\ gridEffectPending = FALSE
    /\ saveTimer = <<>>
    /\ pendingTimers = {}
    /\ effectPending = FALSE
    /\ storage = <<>>
    /\ lastSaveOk = TRUE
    /\ loads = 0
    /\ pausedItems = SelectSeq(bookmarkedIds, LAMBDA id : id \in filterOptions.pausedBookmarks)
    /\ hoverStore = NoHover
    /\ importResult = <<>>

\* mutant: the call deletes the paused ids from the bookmark Set it was given
AggregateDroppingPaused ==
    /\ aggregatedData = <<>>
    /\ LET call == aggregateMaterials(bookmarkedIds, store, scoringMethod, filterOptions)
       IN  /\ aggregatedData' = <<call.data>>
           /\ callLocals' = <<[materialQuantityMap |-> call.materialQuantityMap,
                               allSources |-> call.allSources]>>
    /\ bookmarkedIds' = SelectSeq(bookmarkedIds, LAMBDA id : id \notin filterOptions.pausedBookmarks)
    /\ UNCHANGED <<store, scoringMethod, filterOptions, previousData>>
    /\ UNCHANGED appVars

\* the call aggregateMaterials(bookmarkedIds, db, method, filterOptions)
Aggregate ==
    /\ aggregatedData = <<>>
    /\ LET call == aggregateMaterials(bookmarkedIds, store, scoringMethod, filterOptions)
       IN  /\ aggregatedData' = <<call.data>>
           /\ callLocals' = <<[materialQuantityMap |-> call.materialQuantityMap,
                               allSources |-> call.allSources]>>
    /\ UNCHANGED <<store, bookmarkedIds, scoringMethod, filterOptions, previousData>>
    /\ UNCHANGED appVars

\* the user selects the other scoring method; the data is recomputed by the
\* next call
SetScoringMethod(method) ==
    /\ aggregatedData # <<>>
    /\ method # scoringMethod
    /\ scoringMethod' = method
    /\ previousData' = <<[method |-> scoringMethod, data |-> aggregatedData[1]]>>
    /\ aggregatedData' = <<>>
    /\ callLocals' = <<>>
    /\ UNCHANGED <<store, bookmarkedIds, filterOptions>>
    /\ UNCHANGED appVars

Next ==
    \/ Aggregate
    \/ \E method \in ScoringMethods : SetScoringMethod(method)

Spec == Init /\ [][Next]_vars

(***************************************************************************)
(* The page: DatabaseStore, SettingsStore and the derived data of          *)
(* MaterialsGrid                                                           *)
(***************************************************************************)
\* largest number of page reloads
MaxReloads == 2

\* the ids setTimeout hands out
TimerIds == {1, 2}

\* the persisted settings, as far as they are modelled
DEFAULT_SETTINGS ==
    [version |-> 1, bookmarkedItems |-> <<>>, pausedItems |-> <<>>, scoringMethod |-> "max_yield"]

\* SettingsStore._settings in the current state
Settings ==
    [version |-> 1, bookmarkedItems |-> bookmarkedIds, pausedItems |-> pausedItems,
     scoringMethod |-> scoringMethod]

\* JSON.stringify(this._settings): the text as its sequence of keys and values
JSONStringify(st) ==
    <<"version", st.version, "bookmarkedItems", st.bookmarkedItems,
      "pausedItems", st.pausedItems, "scoringMethod", st.scoringMethod>>

\* JSON.parse of a text written by JSONStringify
JSONParse(text) ==
    [version |-> text[2], bookmarkedItems |-> text[4], pausedItems |-> text[6],
     scoringMethod |-> text[8]]

\* loadFromStorage: the stored settings when there are any of version 1
loadFromStorage(stored) ==
    IF stored # <<>> /\ JSONParse(stored[1]).version = 1
    THEN JSONParse(stored[1])
    ELSE DEFAULT_SETTINGS

\* mutant: a pending timer is not cleared before the next one is set
debouncedSaveWithoutClear(timer, pending) ==
    LET id == CHOOSE t \in TimerIds \ pending : TRUE
    IN  [saveTimer |-> <<id>>, pending |-> pending \cup {id}]

\* debouncedSave: clearTimeout(saveTimer) when one is set, then setTimeout
debouncedSave(timer, pending) ==
    LET cleared == IF timer # <<>> THEN pending \ {timer[1]} ELSE pending
        id == CHOOSE t \in TimerIds \ cleared : TRUE
    IN  [saveTimer |-> <<id>>, pending |-> cleared \cup {id}]

\* the getter pausedItems: the stored paused ids that are bookmarked, as a Set
PausedSet(bookmarked, paused) == {id \in Range(paused) : SeqHas(bookmarked, id)}

\* the filter options MaterialsGrid builds from the default settings
DefaultFilterOptions ==
    [hideScrappyCollected |-> FALSE, rarityFilters |-> Rarities,
     hiddenSourceItems |-> {}, pausedBookmarks |-> {}]

\* mutant: the derived data is computed whatever the database status is
DerivedWithoutStatusCheck(status, handle, ids, method, fo) ==
    IF Len(ids) = 0 THEN [data |-> <<>>, invoked |-> {}]
    ELSE [data |-> IF handle THEN <<aggregateMaterials(ids, store, method, fo).data>> ELSE <<>>,
          invoked |-> {[status |-> status, handle |-> handle]}]

\* MaterialsGrid's $derived.by: null (<<>>) unless the database is ready and
\* something is bookmarked; query throws while the handle is not set
Derived(status, handle, ids, method, fo) ==
    IF status # "ready" THEN [data |-> <<>>, invoked |-> {}]
    ELSE IF Len(ids) = 0 THEN [data |-> <<>>, invoked |-> {}]
    ELSE [data |-> IF handle THEN <<aggregateMaterials(ids, store, method, fo).data>> ELSE <<>>,
          invoked |-> {[status |-> status, handle |-> handle]}]

\* MaterialsGrid's $effect runs after a change of what the derived data
\* reads: the derived data is evaluated and handed to setAggregatedData
RunGridEffect ==
    /\ gridEffectPending
    /\ gridEffectPending' = FALSE
    /\ LET d == Derived(dbStatus, dbHandle, bookmarkedIds, scoringMethod, filterOptions)
       IN  /\ aggregatedData' = d.data
           /\ invokedWith' = invokedWith \cup d.invoked
    /\ UNCHANGED <<store, bookmarkedIds, scoringMethod, filterOptions, callLocals, previousData>>
    /\ UNCHANGED <<dbStatus, dbHandle, initPc, saveTimer, pendingTimers, effectPending, storage, lastSaveOk, loads>>
    /\ UNCHANGED <<pausedItems, hoverStore, importResult>>

\* the catch block of initialize()
InitializeFails ==
    /\ dbStatus' = "error"
    /\ initPc' = "done"
    /\ dbHandle' = dbHandle
    /\ gridEffectPending' = TRUE
    /\ UNCHANGED <<aggregatedData, invokedWith>>

\* await initSqlJs(...) resolves or rejects
InitSqlJsSettles(ok) ==
    /\ initPc = "initSqlJs"
    /\ IF ok
       THEN /\ initPc' = "fetch"
            /\ UNCHANGED <<dbStatus, dbHandle, aggregatedData, invokedWith, gridEffectPending>>
       ELSE InitializeFails
    /\ UNCHANGED <<store, bookmarkedIds, scoringMethod, filterOptions, callLocals, previousData>>
    /\ UNCHANGED <<saveTimer, pendingTimers, effectPending, storage, lastSaveOk, loads>>
    /\ UNCHANGED <<pausedItems, hoverStore, importResult>>

\* await fetch(...) resolves with an ok response, resolves with a response
\* that is not ok (initialize throws), or rejects
FetchSettles(outcome) ==
    /\ initPc = "fetch"
    /\ IF outcome = "ok"
       THEN /\ initPc' = "arrayBuffer"
            /\ UNCHANGED <<dbStatus, dbHandle, aggregatedData, invokedWith, gridEffectPending>>
       ELSE InitializeFails
    /\ UNCHANGED <<store, bookmarkedIds, scoringMethod, filterOptions, callLocals, previousData>>
    /\ UNCHANGED <<saveTimer, pendingTimers, effectPending, storage, lastSaveOk, loads>>
    /\ UNCHANGED <<pausedItems, hoverStore, importResult>>

\* await response.arrayBuffer() resolves and new SQL.Database(...) returns
\* ("opened") or throws ("corrupt"), or the await rejects
ArrayBufferSettles(outcome) ==
    /\ initPc = "arrayBuffer"
    /\ IF outcome = "opened"
       THEN /\ dbHandle' = TRUE
            /\ dbStatus' = "ready"
            /\ initPc' = "done"
            /\ gridEffectPending' = TRUE
            /\ UNCHANGED <<aggregatedData, invokedWith>>
       ELSE InitializeFails
    /\ UNCHANGED <<store, bookmarkedIds, scoringMethod, filterOptions, callLocals, previousData>>
    /\ UNCHANGED <<saveTimer, pendingTimers, effectPending, storage, lastSaveOk, loads>>
    /\ UNCHANGED <<pausedItems, hoverStore, importResult>>

\* SettingsStore.toggle(itemId): the bookmark is removed together with its
\* paused state, or appended
toggle(itemId) ==
    /\ IF SeqHas(bookmarkedIds, itemId)
       THEN /\ bookmarkedIds' = SelectSeq(bookmarkedIds, LAMBDA id : id # itemId)
            /\ pausedItems' = SelectSeq(pausedItems, LAMBDA id : id # itemId)
            /\ filterOptions' = [filterOptions EXCEPT !.pausedBookmarks = @ \ {itemId}]
       ELSE /\ Len(bookmarkedIds) < MaxBookmarks
            /\ bookmarkedIds' = Append(bookmarkedIds, itemId)
            /\ pausedItems' = pausedItems
            /\ filterOptions' = filterOptions
    /\ effectPending' = TRUE
    /\ gridEffectPending' = TRUE
    /\ UNCHANGED <<store, scoringMethod, callLocals, previousData, aggregatedData, invokedWith>>
    /\ UNCHANGED <<dbStatus, dbHandle, initPc, saveTimer, pendingTimers, storage, lastSaveOk, loads>>
    /\ UNCHANGED <<hoverStore, importResult>>

\* SettingsStore.clear()
clear ==
    /\ bookmarkedIds' = <<>>
    /\ pausedItems' = <<>>
    /\ filterOptions' = [filterOptions EXCEPT !.pausedBookmarks = {}]
    /\ effectPending' = TRUE
    /\ gridEffectPending' = TRUE
    /\ UNCHANGED <<store, scoringMethod, callLocals, previousData, aggregatedData, invokedWith>>
    /\ UNCHANGED <<dbStatus, dbHandle, initPc, saveTimer, pendingTimers, storage, lastSaveOk, loads>>
    /\ UNCHANGED <<hoverStore, importResult>>

\* mutant: the pause flag is toggled whether or not the item is bookmarked
togglePauseUnchecked(itemId) ==
    /\ pausedItems' = IF SeqHas(pausedItems, itemId)
                      THEN SelectSeq(pausedItems, LAMBDA id : id # itemId)
                      ELSE Append(pausedItems, itemId)
    /\ filterOptions' = [filterOptions EXCEPT !.pausedBookmarks = PausedSet(bookmarkedIds, pausedItems')]
    /\ effectPending' = TRUE
    /\ gridEffectPending' = TRUE
    /\ UNCHANGED <<store, bookmarkedIds, scoringMethod, callLocals, previousData, aggregatedData, invokedWith>>
    /\ UNCHANGED <<dbStatus, dbHandle, initPc, saveTimer, pendingTimers, storage, lastSaveOk, loads>>
    /\ UNCHANGED <<hoverStore, importResult>>

\* SettingsStore.togglePause(itemId): returns at once for an item that is not
\* bookmarked
togglePause(itemId) ==
    IF ~SeqHas(bookmarkedIds, itemId)
    THEN UNCHANGED vars
    ELSE /\ pausedItems' = IF SeqHas(pausedItems, itemId)
                           THEN SelectSeq(pausedItems, LAMBDA id : id # itemId)
                           ELSE Append(pausedItems, itemId)
         /\ filterOptions' = [filterOptions EXCEPT !.pausedBookmarks = PausedSet(bookmarkedIds, pausedItems')]
         /\ effectPending' = TRUE
         /\ gridEffectPending' = TRUE
         /\ UNCHANGED <<store, bookmarkedIds, scoringMethod, callLocals, previousData, aggregatedData, invokedWith>>
         /\ UNCHANGED <<dbStatus, dbHandle, initPc, saveTimer, pendingTimers, storage, lastSaveOk, loads>>
         /\ UNCHANGED <<hoverStore, importResult>>

\* SettingsStore.clearPaused()
clearPaused ==
    /\ pausedItems' = <<>>
    /\ filterOptions' = [filterOptions EXCEPT !.pausedBookmarks = {}]
    /\ effectPending' = TRUE
    /\ gridEffectPending' = TRUE
    /\ UNCHANGED <<store, bookmarkedIds, scoringMethod, callLocals, previousData, aggregatedData, invokedWith>>
    /\ UNCHANGED <<dbStatus, dbHandle, initPc, saveTimer, pendingTimers, storage, lastSaveOk, loads>>
    /\ UNCHANGED <<hoverStore, importResult>>

\* the setter SettingsStore.scoringMethod = value, for a value that differs
SelectScoringMethod(value) ==
    /\ value # scoringMethod
    /\ scoringMethod' = value
    /\ effectPending' = TRUE
    /\ gridEffectPending' = TRUE
    /\ UNCHANGED <<store, bookmarkedIds, filterOptions, callLocals, previousData, aggregatedData, invokedWith>>
    /\ UNCHANGED <<dbStatus, dbHandle, initPc, saveTimer, pendingTimers, storage, lastSaveOk, loads>>
    /\ UNCHANGED <<pausedItems, hoverStore, importResult>>

\* the auto-save $effect runs: debouncedSave()
RunAutoSaveEffect ==
    /\ effectPending
    /\ pendingTimers # TimerIds
    /\ effectPending' = FALSE
    /\ LET r == debouncedSave(saveTimer, pendingTimers)
       IN  /\ saveTimer' = r.saveTimer
           /\ pendingTimers' = r.pending
    /\ UNCHANGED <<store, bookmarkedIds, scoringMethod, filterOptions, aggregatedData, callLocals, previousData>>
    /\ UNCHANGED <<dbStatus, dbHandle, initPc, invokedWith, gridEffectPending, storage, lastSaveOk, loads>>
    /\ UNCHANGED <<pausedItems, hoverStore, importResult>>

\* a scheduled timeout fires once the pending effects have run:
\* saveToStorage(), where setItem stores the text or throws, then
\* saveTimer = null
SaveTimerFires(t, ok) ==
    /\ t \in pendingTimers
    /\ ~effectPending
    /\ pendingTimers' = pendingTimers \ {t}
    /\ storage' = IF ok THEN <<JSONStringify(Settings)>> ELSE storage
    /\ lastSaveOk' = ok
    /\ saveTimer' = <<>>
    /\ UNCHANGED <<store, bookmarkedIds, scoringMethod, filterOptions, aggregatedData, callLocals, previousData>>
    /\ UNCHANGED <<dbStatus, dbHandle, initPc, invokedWith, gridEffectPending, effectPending, loads>>
    /\ UNCHANGED <<pausedItems, hoverStore, importResult>>

\* the page is reloaded: timers are gone, the stores are constructed anew,
\* the settings are loaded from localStorage and the auto-save effect is set up
Reload ==
    /\ loads < MaxReloads
    /\ ~effectPending
    /\ loads' = loads + 1
    /\ bookmarkedIds' = loadFromStorage(storage).bookmarkedItems
    /\ scoringMethod' = loadFromStorage(storage).scoringMethod
    /\ pausedItems' = loadFromStorage(storage).pausedItems
    /\ filterOptions' = [DefaultFilterOptions EXCEPT
                            !.pausedBookmarks = PausedSet(bookmarkedIds', pausedItems')]
    /\ hoverStore' = NoHover
    /\ importResult' = <<>>
    /\ saveTimer' = <<>>
    /\ pendingTimers' = {}
    /\ effectPending' = TRUE
    /\ dbStatus' = "loading"
    /\ dbHandle' = FALSE
    /\ initPc' = "initSqlJs"
    /\ aggregatedData' = <<>>
    /\ gridEffectPending' = TRUE
    /\ UNCHANGED <<store, callLocals, previousData, invokedWith, storage, lastSaveOk>>

\* one page session, from the construction of the stores
DbInit ==
    /\ store = Catalog(1, Num(2), Num(1))
    /\ bookmarkedIds \in BookmarkSets
    /\ scoringMethod \in ScoringMethods
    /\ filterOptions = DefaultFilterOptions
    /\ aggregatedData = <<>>
    /\ callLocals = <<>>
    /\ previousData = <<>>
    /\ dbStatus = "loading"
    /\ dbHandle = FALSE
    /\ initPc \in {"none", "initSqlJs"}
    /\ invokedWith = {}
    /\ gridEffectPending = TRUE
    /\ saveTimer = <<>>
    /\ pendingTimers = {}
    /\ effectPending = TRUE
    /\ storage = <<>>
    /\ lastSaveOk = TRUE
    /\ loads = 0
    /\ pausedItems = <<>>
    /\ hoverStore = NoHover
    /\ importResult = <<>>

DbNext ==
    \/ \E ok \in BOOLEAN : InitSqlJsSettles(ok)
    \/ \E outcome \in {"ok", "notOk", "rejected"} : FetchSettles(outcome)
    \/ \E outcome \in {"opened", "corrupt", "rejected"} : ArrayBufferSettles(outcome)
    \/ \E itemId \in BookmarkCandidates : toggle(itemId)
    \/ clear
    \/ \E itemId \in BookmarkCandidates : togglePause(itemId)
    \/ clearPaused
    \/ \E value \in ScoringMethods : SelectScoringMethod(value)
    \/ RunGridEffect

DbSpec == DbInit /\ [][DbNext]_vars

\* a first visit: default settings, nothing stored, the database still loading
SettingsInit ==
    /\ store = Catalog(1, Num(2), Num(1))
    /\ bookmarkedIds = DEFAULT_SETTINGS.bookmarkedItems
    /\ scoringMethod = DEFAULT_SETTINGS.scoringMethod
    /\ filterOptions = DefaultFilterOptions
    /\ aggregatedData = <<>>
    /\ callLocals = <<>>
    /\ previousData = <<>>
    /\ dbStatus = "loading"
    /\ dbHandle = FALSE
    /\ initPc = "initSqlJs"
    /\ invokedWith = {}
    /\ gridEffectPending = TRUE
    /\ saveTimer = <<>>
    /\ pendingTimers = {}
    /\ effectPending = TRUE
    /\ storage = <<>>
    /\ lastSaveOk = TRUE
    /\ loads = 0
    /\ pausedItems = DEFAULT_SETTINGS.pausedItems
    /\ hoverStore = NoHover
    /\ importResult = <<>>

SettingsNext ==
    \/ \E itemId \in BookmarkCandidates : toggle(itemId)
    \/ clear
    \/ \E value \in ScoringMethods : SelectScoringMethod(value)
    \/ RunAutoSaveEffect
    \/ \E t \in TimerIds, ok \in BOOLEAN : SaveTimerFires(t, ok)
    \/ Reload

SettingsSpec == SettingsInit /\ [][SettingsNext]_vars

(***************************************************************************)
(* HoverStore                                                              *)
(***************************************************************************)
\* the arguments of the hover setters: null (<<>>) or a string, the empty
\* string included
HoverArgs == {<<>>, <<"">>, <<"gadget">>, <<"lamp">>, <<"metal_parts">>, <<"wires">>, <<"scrap">>}

SourceTypes == {"salvage", "recycle"}

\* everything but the hover store
pageVars == <<store, bookmarkedIds, scoringMethod, filterOptions, aggregatedData, callLocals, previousData, dbStatus, dbHandle, initPc, invokedWith, gridEffectPending, saveTimer, pendingTimers, effectPending, storage, lastSaveOk, loads, pausedItems, importResult>>

setHoveredBookmark(itemId) ==
    /\ hoverStore' = [hoveredBookmarkId |-> itemId, hoveredMaterialId |-> <<>>,
                      hoveredSourceId |-> <<>>, hoveredSourceType |-> <<>>]
    /\ UNCHANGED pageVars

setHoveredMaterial(materialId) ==
    /\ hoverStore' = [hoveredMaterialId |-> materialId, hoveredBookmarkId |-> <<>>,
                      hoveredSourceId |-> <<>>, hoveredSourceType |-> <<>>]
    /\ UNCHANGED pageVars

\* mutant: a source hover leaves the hovered material as it is
setHoveredSourceKeepingMaterial(sourceId, type) ==
    /\ hoverStore' = [hoveredSourceId |-> sourceId,
                      hoveredSourceType |-> IF sourceId # <<>> /\ sourceId # <<"">> THEN <<type>> ELSE <<>>,
                      hoveredBookmarkId |-> <<>>,
                      hoveredMaterialId |-> hoverStore.hoveredMaterialId]
    /\ UNCHANGED pageVars

\* sourceId ? type : null is null for null and for the empty string
setHoveredSource(sourceId, type) ==
    /\ hoverStore' = [hoveredSourceId |-> sourceId,
                      hoveredSourceType |-> IF sourceId # <<>> /\ sourceId # <<"">> THEN <<type>> ELSE <<>>,
                      hoveredBookmarkId |-> <<>>,
                      hoveredMaterialId |-> <<>>]
    /\ UNCHANGED pageVars

clearAll ==
    /\ hoverStore' = NoHover
    /\ UNCHANGED pageVars

\* the page with nothing hovered; the user bookmarks items and moves the pointer
HoverInit == SettingsInit

HoverNext ==
    \/ \E itemId \in HoverArgs : setHoveredBookmark(itemId)
    \/ \E materialId \in HoverArgs : setHoveredMaterial(materialId)
    \/ \E sourceId \in HoverArgs, type \in SourceTypes : setHoveredSource(sourceId, type)
    \/ clearAll
    \/ \E itemId \in BookmarkCandidates : toggle(itemId)
    \/ clear

HoverSpec == HoverInit /\ [][HoverNext]_vars

(***************************************************************************)
(* Settings import                                                         *)
(***************************************************************************)
\* what a settings file can look like: not JSON at all, another version, a
\* section or an array missing, or complete
ImportKinds ==
    {"garbage", "version2", "noBookmarks", "noGraphFilters", "noMaterialFilters",
     "noBookmarkedItems", "noHiddenRarities", "noRarityFilters", "noPausedItems",
     "noSourceFilters", "complete"}

\* bookmarkedItems of a settings file: ids of the items table, an id that is
\* not in it ("ghost"), and an id written twice
ImportBookmarkLists ==
    {<<>>, <<"lamp">>, <<"lamp", "ghost">>, <<"ghost", "gadget">>, <<"lamp", "lamp">>}

\* the text of a settings file; an absent property is <<>>, a present one <<value>>
ImportFile(kind, items, method) ==
    [parses |-> kind # "garbage",
     version |-> IF kind = "version2" THEN 2 ELSE 1,
     bookmarks |->
        IF kind = "noBookmarks" THEN <<>>
        ELSE <<[bookmarkedItems |-> IF kind = "noBookmarkedItems" THEN <<>> ELSE <<items>>,
                pausedItems |-> IF kind = "noPausedItems" THEN <<>> ELSE <<IF items = <<>> THEN <<>> ELSE <<items[1]>>>>]>>,
     graphFilters |->
        IF kind = "noGraphFilters" THEN <<>>
        ELSE <<[hiddenRarities |-> IF kind = "noHiddenRarities" THEN <<>> ELSE << <<>> >>,
                hiddenTypes |-> << <<>> >>]>>,
     materialFilters |->
        IF kind = "noMaterialFilters" THEN <<>>
        ELSE <<[scoringMethod |-> method,
                hideScrappyCollected |-> TRUE,
                rarityFilters |-> IF kind = "noRarityFilters" THEN <<>> ELSE <<Rarities \ {"Rare"}>>,
                categoryFilters |-> << <<>> >>,
                typeFilters |-> << <<>> >>]>>,
     sourceFilters |->
        IF kind = "noSourceFilters" THEN <<>> ELSE <<[hiddenSourceItems |-> <<{"scrap"}>>]>>]

\* the files the user imports; each selects the scoring method that is not
\* the default
ImportFiles ==
    {ImportFile(kind, items, "weight_conscious") :
        kind \in ImportKinds, items \in ImportBookmarkLists}

\* validateItemIds: the ids found in the items table, in table order; the
\* empty Set when the database is not ready, when there is nothing to look up
\* and when the query throws
validateItemIds(itemIds, status, handle, db) ==
    IF status # "ready" THEN <<>>
    ELSE IF Len(itemIds) = 0 THEN <<>>
    ELSE IF ~handle THEN <<>>
    ELSE LET rows == SelectSeq(db.items, LAMBDA r : r.id \in Range(itemIds))
         IN  [i \in 1..Len(rows) |-> rows[i].id]

\* the message importSettings returns with success = false, <<>> when the
\* import succeeds: JSON.parse throws, the version is not 1, a section is
\* missing, or reading .length of or spreading a missing array throws
ImportFailure(file, validateBookmarks) ==
    IF ~file.parses THEN <<"Invalid JSON format">>
    ELSE IF file.version # 1 THEN <<"Invalid settings format: unsupported version">>
    ELSE IF file.bookmarks = <<>> \/ file.graphFilters = <<>> \/ file.materialFilters = <<>>
         THEN <<"Invalid settings format: missing required sections">>
    ELSE IF \/ file.bookmarks[1].bookmarkedItems = <<>>
            \/ file.graphFilters[1].hiddenRarities = <<>>
            \/ file.graphFilters[1].hiddenTypes = <<>>
            \/ file.materialFilters[1].rarityFilters = <<>>
            \/ file.materialFilters[1].categoryFilters = <<>>
            \/ file.materialFilters[1].typeFilters = <<>>
            \/ (file.sourceFilters # <<>> /\ file.sourceFilters[1].hiddenSourceItems = <<>>)
         THEN <<"Failed to read file">>
    ELSE <<>>

\* the bookmarks an import without failure stores, with the two counts returned
ImportedBookmarks(file, validateBookmarks, status, handle, db) ==
    LET bookmarkedItems == file.bookmarks[1].bookmarkedItems[1]
        validItems == validateItemIds(bookmarkedItems, status, handle, db)
    IN  IF validateBookmarks /\ Len(bookmarkedItems) > 0
        THEN [bookmarkedItems |-> validItems,
              validatedCount |-> Len(validItems),
              invalidCount |-> Len(bookmarkedItems) - Len(validItems)]
        ELSE [bookmarkedItems |-> bookmarkedItems, validatedCount |-> 0, invalidCount |-> 0]

\* what is common to every return of importSettings: the returned value is
\* kept, the rest of the page is untouched
ImportReturns(result) ==
    /\ importResult' = <<result>>
    /\ UNCHANGED <<store, callLocals, previousData, aggregatedData, invokedWith>>
    /\ UNCHANGED <<dbStatus, dbHandle, initPc, saveTimer, pendingTimers, loads, hoverStore>>

\* this._settings = newSettings; this.saveToStorage(), where setItem stores
\* the text or throws
ImportApplies(imported, paused, materialFilters, hidden, ok) ==
    /\ bookmarkedIds' = imported
    /\ pausedItems' = paused
    /\ scoringMethod' = materialFilters.scoringMethod
    /\ filterOptions' = [hideScrappyCollected |-> materialFilters.hideScrappyCollected,
                         rarityFilters |-> materialFilters.rarityFilters[1],
                         hiddenSourceItems |-> hidden,
                         pausedBookmarks |-> PausedSet(imported, paused)]
    /\ effectPending' = TRUE
    /\ gridEffectPending' = TRUE
    /\ lastSaveOk' = ok
    /\ storage' = IF ok
                  THEN <<JSONStringify([version |-> 1, bookmarkedItems |-> imported,
                                        pausedItems |-> paused,
                                        scoringMethod |-> materialFilters.scoringMethod])>>
                  ELSE storage

\* mutant: the validated bookmarks are assigned to the store before the rest
\* of the file is copied
importSettingsAssigningEarly(file, validateBookmarks, ok) ==
    LET failure == ImportFailure(file, validateBookmarks)
    IN  IF failure # <<>>
        THEN /\ ImportReturns([success |-> FALSE, message |-> failure,
                               validatedCount |-> <<>>, invalidCount |-> <<>>])
             /\ bookmarkedIds' = IF failure = <<"Failed to read file">>
                                    /\ file.bookmarks[1].bookmarkedItems # <<>>
                                 THEN file.bookmarks[1].bookmarkedItems[1]
                                 ELSE bookmarkedIds
             /\ UNCHANGED <<pausedItems, scoringMethod, filterOptions, effectPending,
                            gridEffectPending, lastSaveOk, storage>>
        ELSE LET b == ImportedBookmarks(file, validateBookmarks, dbStatus, dbHandle, store)
             IN  /\ ImportReturns([success |-> TRUE, message |-> <<>>,
                                   validatedCount |-> <<b.validatedCount>>,
                                   invalidCount |-> <<b.invalidCount>>])
                 /\ ImportApplies(b.bookmarkedItems,
                                  IF file.bookmarks[1].pausedItems = <<>> THEN <<>>
                                  ELSE file.bookmarks[1].pausedItems[1],
                                  file.materialFilters[1],
                                  IF file.sourceFilters = <<>> THEN {}
                                  ELSE file.sourceFilters[1].hiddenSourceItems[1],
                                  ok)

\* SettingsStore.importSettings(json, validateBookmarks)
importSettings(file, validateBookmarks, ok) ==
    LET failure == ImportFailure(file, validateBookmarks)
    IN  IF failure # <<>>
        THEN /\ ImportReturns([success |-> FALSE, message |-> failure,
                               validatedCount |-> <<>>, invalidCount |-> <<>>])
             /\ UNCHANGED <<bookmarkedIds, pausedItems, scoringMethod, filterOptions,
                            effectPending, gridEffectPending, lastSaveOk, storage>>
        ELSE LET b == ImportedBookmarks(file, validateBookmarks, dbStatus, dbHandle, store)
             IN  /\ ImportReturns([success |-> TRUE, message |-> <<>>,
                                   validatedCount |-> <<b.validatedCount>>,
                                   invalidCount |-> <<b.invalidCount>>])
                 /\ ImportApplies(b.bookmarkedItems,
                                  IF file.bookmarks[1].pausedItems = <<>> THEN <<>>
                                  ELSE file.bookmarks[1].pausedItems[1],
                                  file.materialFilters[1],
                                  IF file.sourceFilters = <<>> THEN {}
                                  ELSE file.sourceFilters[1].hiddenSourceItems[1],
                                  ok)

\* a page session in which settings files are imported while the database
\* loads, is ready or has failed
ImportInit == SettingsInit

ImportNext ==
    \/ \E ok \in BOOLEAN : InitSqlJsSettles(ok)
    \/ \E outcome \in {"ok", "notOk", "rejected"} : FetchSettles(outcome)
    \/ \E outcome \in {"opened", "corrupt", "rejected"} : ArrayBufferSettles(outcome)
    \/ \E file \in ImportFiles, validateBookmarks, ok \in BOOLEAN : importSettings(file, validateBookmarks, ok)

ImportSpec == ImportInit /\ [][ImportNext]_vars

(***************************************************************************)
(* Properties                                                              *)
(***************************************************************************)
Called == aggregatedData # <<>>

Data == aggregatedData[1]

\* the sources of both returned lists
Listed == Data.salvageSources \o Data.recycleSources

InList(list, x) == \E i \in 1..Len(list) : list[i] = x

\* the scored sources (allSources) of the call whose result the state holds
Scored == callLocals[1].allSources

BothPositive(x) == Gt(x.salvageScore, Num(0)) /\ Gt(x.recycleScore, Num(0))

\* C1: a scored source with both scores > 0 is in recycleSources only when
\* recycleScore / salvageScore > 2.0 and in salvageSources only otherwise
\* (a ratio of exactly 2.0 included); no source is in both lists.
C1_ThresholdPartition ==
    Called =>
        /\ \A i \in 1..Len(Scored) :
            LET x == Scored[i]
            IN  BothPositive(x) =>
                    IF Gt(Div(x.recycleScore, x.salvageScore), Num(2))
                    THEN InList(Data.recycleSources, x) /\ ~InList(Data.salvageSources, x)
                    ELSE InList(Data.salvageSources, x) /\ ~InList(Data.recycleSources, x)
        /\ \A i \in 1..Len(Data.salvageSources), j \in 1..Len(Data.recycleSources) :
            Data.salvageSources[i].item.id # Data.recycleSources[j].item.id

\* both sides of the threshold in one result: a recycle source with two
\* positive finite scores, and a salvage source whose ratio is exactly 2.0
C1_Witness ==
    /\ Called
    /\ \E i \in 1..Len(Data.recycleSources) :
        LET x == Data.recycleSources[i]
        IN  BothPositive(x) /\ IsFinite(x.recycleScore) /\ IsFinite(x.salvageScore)
    /\ \E i \in 1..Len(Data.salvageSources) :
        LET x == Data.salvageSources[i]
        IN  BothPositive(x) /\ Div(x.recycleScore, x.salvageScore) = Num(2)

MaterialIdsOf(data) == {data.materials[i].item.id : i \in 1..Len(data.materials)}

\* C2: no returned source is a bookmark (paused or not), a returned material
\* or a hidden source item.
C2_SourcesNotExcluded ==
    Called =>
        \A i \in 1..Len(Listed) :
            /\ Listed[i].item.id \notin Range(bookmarkedIds)
            /\ Listed[i].item.id \notin MaterialIdsOf(Data)
            /\ Listed[i].item.id \notin filterOptions.hiddenSourceItems

OutputEdges(db) == Range(db.salvaging_outputs) \cup Range(db.recycling_outputs)

\* sources are returned although a bookmark, a material and a hidden item
\* each have an output edge to a demanded material
C2_Witness ==
    /\ Called
    /\ Len(Listed) > 0
    /\ \E e \in OutputEdges(store) :
        e.item_id \in Range(bookmarkedIds) /\ e.output_id \in MaterialIdsOf(Data)
    /\ \E e \in OutputEdges(store) :
        e.item_id \in MaterialIdsOf(Data) /\ e.output_id \in MaterialIdsOf(Data)
    /\ \E e \in OutputEdges(store) :
        e.item_id \in filterOptions.hiddenSourceItems /\ e.output_id \in MaterialIdsOf(Data)

\* the bookmarks that are not paused
ActiveBookmarks == Range(bookmarkedIds) \ filterOptions.pausedBookmarks

\* the material filter as the specification states it, the six auto-collected
\* ids written out
AutoCollected ==
    {"metal_parts", "fabric", "plastic_parts", "chemicals", "rubber_parts",
     "assorted_seeds"}

Accepted(item) ==
    /\ item.rarity \in filterOptions.rarityFilters
    /\ ~(filterOptions.hideScrappyCollected /\ item.id \in AutoCollected)

\* the recipe edges (b, m) of the bookmarks that are not paused
ActiveEdgesTo(m) ==
    {r \in Range(store.crafting_recipes) :
        r.item_id \in ActiveBookmarks /\ r.ingredient_id = m}

RECURSIVE SumQuantities(_)
SumQuantities(edges) ==
    IF edges = {} THEN 0
    ELSE LET e == CHOOSE x \in edges : TRUE
         IN  e.quantity + SumQuantities(edges \ {e})

\* the catalog items that are demanded and pass the filter
ExpectedMaterials ==
    {it \in Range(store.items) : Accepted(it) /\ ActiveEdgesTo(it.id) # {}}

\* C3: every returned material carries the summed quantity and the exact set of
\* the active bookmarks that need it, every demanded material that passes the
\* filter is returned once, and a lone bookmark needing wires x5 yields exactly
\* [{wires, 5, [lamp]}].
C3_DemandTotals ==
    Called =>
        /\ \A i \in 1..Len(Data.materials) :
            LET m == Data.materials[i]
            IN  /\ m.item \in ExpectedMaterials
                /\ m.totalQuantity = SumQuantities(ActiveEdgesTo(m.item.id))
                /\ Range(m.requiredBy) = {r.item_id : r \in ActiveEdgesTo(m.item.id)}
                /\ Len(m.requiredBy) = Cardinality(Range(m.requiredBy))
        /\ \A it \in ExpectedMaterials :
            Cardinality({i \in 1..Len(Data.materials) : Data.materials[i].item = it}) = 1
        /\ (bookmarkedIds = <<"lamp">> /\ ActiveBookmarks = {"lamp"}
                /\ "Rare" \in filterOptions.rarityFilters) =>
            /\ Len(Data.materials) = 1
            /\ Data.materials[1].item.id = "wires"
            /\ Data.materials[1].totalQuantity = 5
            /\ Data.materials[1].requiredBy = <<"lamp">>

\* one material summed over two bookmarks while another edge of an active
\* bookmark is rejected by the filter
C3_Witness ==
    /\ Called
    /\ \E i \in 1..Len(Data.materials) : Len(Data.materials[i].requiredBy) = 2
    /\ \E r \in Range(store.crafting_recipes), it \in Range(store.items) :
        r.item_id \in ActiveBookmarks /\ r.ingredient_id = it.id /\ ~Accepted(it)

\* C4: every returned source has numeric scores >= 0, and none has both
\* scores exactly 0.
C4_ScoresNonNegative ==
    Called =>
        \A i \in 1..Len(Listed) :
            /\ Ge(Listed[i].salvageScore, Num(0))
            /\ Ge(Listed[i].recycleScore, Num(0))
            /\ ~(IsZero(Listed[i].salvageScore) /\ IsZero(Listed[i].recycleScore))

\* C5: a scored source with salvageScore 0 and recycleScore > 0 is in
\* recycleSources and not in salvageSources; one with recycleScore 0 and
\* salvageScore > 0 is in salvageSources and not in recycleSources.
C5_ForcedBuckets ==
    Called =>
        \A i \in 1..Len(Scored) :
            LET x == Scored[i]
            IN  /\ (IsZero(x.salvageScore) /\ Gt(x.recycleScore, Num(0))) =>
                    (InList(Data.recycleSources, x) /\ ~InList(Data.salvageSources, x))
                /\ (IsZero(x.recycleScore) /\ Gt(x.salvageScore, Num(0))) =>
                    (InList(Data.salvageSources, x) /\ ~InList(Data.recycleSources, x))

\* one call that scores a recycle-only source and a salvage-only source
C5_Witness ==
    /\ Called
    /\ \E i \in 1..Len(Scored) :
        IsZero(Scored[i].salvageScore) /\ Gt(Scored[i].recycleScore, Num(0))
    /\ \E i \in 1..Len(Scored) :
        IsZero(Scored[i].recycleScore) /\ Gt(Scored[i].salvageScore, Num(0))

\* s is in the list that map m holds under key
Holds(m, key, s) == \E i \in 1..Len(m) : m[i].k = key /\ SeqHas(m[i].v, s)

ItemIds == {store.items[i].id : i \in 1..Len(store.items)}

\* C6: s is in materialToSources[m] iff sourceToMaterials has key s with m in
\* its list.
C6_IndexConsistency ==
    Called =>
        \A m \in ItemIds \cup Range(MapKeys(Data.materialToSources)),
           src \in ItemIds \cup Range(MapKeys(Data.sourceToMaterials)) :
            Holds(Data.materialToSources, m, src) <=> Holds(Data.sourceToMaterials, src, m)

\* a material with two sources, and a source whose salvage and recycle yields
\* name different materials
C6_Witness ==
    /\ Called
    /\ \E i \in 1..Len(Data.materialToSources) : Len(Data.materialToSources[i].v) >= 2
    /\ \E i \in 1..Len(Listed) :
        Range(MapKeys(Listed[i].salvageYields)) # Range(MapKeys(Listed[i].recycleYields))
    /\ Len(Data.recycleSources) > 0 /\ Len(Data.salvageSources) > 0

\* the demand of the same call with hideScrappyCollected switched off
DemandUnhidden ==
    ResolveDemand(bookmarkedIds, store,
                  [filterOptions EXCEPT !.hideScrappyCollected = FALSE])

\* the items whose output edges to demanded materials all lead to
\* auto-collected materials
OnlyAutoCollectedYields ==
    {id \in ItemIds :
        LET outs == {e.output_id : e \in {x \in OutputEdges(store) :
                        x.item_id = id /\ MapHas(DemandUnhidden.qty, x.output_id)}}
        IN  outs # {} /\ outs \subseteq AutoCollected}

\* C8: with hideScrappyCollected = true no auto-collected id is a material, a
\* yield of a source or a key of materialToSources, and an item whose only
\* demanded yields were auto-collected materials is not a source.
C8_ScrappyHidden ==
    (Called /\ filterOptions.hideScrappyCollected) =>
        /\ MaterialIdsOf(Data) \cap AutoCollected = {}
        /\ \A i \in 1..Len(Listed) :
            /\ Range(MapKeys(Listed[i].salvageYields)) \cap AutoCollected = {}
            /\ Range(MapKeys(Listed[i].recycleYields)) \cap AutoCollected = {}
            /\ Listed[i].item.id \notin OnlyAutoCollectedYields
        /\ Range(MapKeys(Data.materialToSources)) \cap AutoCollected = {}

\* the filter hides a demanded auto-collected material and the sources that
\* only yield it, while other sources are still returned
C8_Witness ==
    /\ Called
    /\ filterOptions.hideScrappyCollected
    /\ MapHas(DemandUnhidden.qty, "metal_parts")
    /\ OnlyAutoCollectedYields # {}
    /\ Len(Listed) > 0

EmptyResult ==
    [materials |-> <<>>, salvageSources |-> <<>>, recycleSources |-> <<>>,
     materialToSources |-> <<>>, sourceToMaterials |-> <<>>]

\* no recipe edge of an active bookmark leads to a catalog item that passes
\* the filter: the set is empty, every bookmark is paused, or every
\* ingredient is rejected
NothingDemanded ==
    \A r \in Range(store.crafting_recipes) :
        r.item_id \in ActiveBookmarks =>
            \A it \in Range(store.items) : it.id = r.ingredient_id => ~Accepted(it)

\* C9: an empty bookmark set, a set of paused bookmarks only, or a demand that
\* the filter rejects entirely gives three empty lists and two empty maps.
C9_EmptyResult ==
    (Called /\ NothingDemanded) => Data = EmptyResult

\* every bookmark is paused although the set is not empty
C9_Witness ==
    /\ Called
    /\ Len(bookmarkedIds) > 0
    /\ ActiveBookmarks = {}
    /\ \E r \in Range(store.crafting_recipes) : r.item_id \in Range(bookmarkedIds)
    /\ Data = EmptyResult

\* the state holds the result under "max_yield" and, after the switch, the
\* result under "weight_conscious" for the same inputs
Switched ==
    /\ Called
    /\ previousData # <<>>
    /\ previousData[1].method = "max_yield"
    /\ scoringMethod = "weight_conscious"

ListedIn(data) == data.salvageSources \o data.recycleSources

\* C10 as stated: after the switch the salvageScore of every source whose item
\* weighs 2 kg is strictly lower than before.
C10_ItemWeightDecreases ==
    Switched =>
        \A i \in 1..Len(ListedIn(previousData[1].data)), j \in 1..Len(Listed) :
            LET x == ListedIn(previousData[1].data)[i]
                y == Listed[j]
            IN  (x.item.id = y.item.id /\ x.item.weight_kg = Num(2)) =>
                    Gt(x.salvageScore, y.salvageScore)

SalvageBaseScoreOf(x) ==
    BaseScore(x.salvageYields, callLocals[1].materialQuantityMap,
              SumSeq(MapValues(callLocals[1].materialQuantityMap)))

\* C10 amended: after the switch the salvageScore is strictly lower for every
\* source whose effective salvage weight (the summed weight of its salvage
\* yields, or the item's weight_kg when that sum is 0) is 2 and whose
\* salvageBaseScore is > 0.
C10_EffectiveWeightDecreases ==
    Switched =>
        \A i \in 1..Len(ListedIn(previousData[1].data)), j \in 1..Len(Listed) :
            LET x == ListedIn(previousData[1].data)[i]
                y == Listed[j]
            IN  (/\ x.item.id = y.item.id
                 /\ EffectiveWeight(x.item, x.salvageYields, store) = Num(2)
                 /\ Gt(SalvageBaseScoreOf(x), Num(0))) =>
                    Gt(x.salvageScore, y.salvageScore)

\* a source scored under both methods whose salvage yields weigh 2 kg in total
C10_Witness ==
    /\ Switched
    /\ \E i \in 1..Len(ListedIn(previousData[1].data)), j \in 1..Len(Listed) :
        LET x == ListedIn(previousData[1].data)[i]
            y == Listed[j]
        IN  /\ x.item.id = y.item.id
            /\ TotalYieldWeight(x.salvageYields, store) = Num(2)
            /\ Gt(SalvageBaseScoreOf(x), Num(0))
            /\ Gt(x.salvageScore, y.salvageScore)

NonIncreasing(keys) ==
    \A i \in 1..(Len(keys) - 1) : Ge(keys[i], keys[i + 1])

\* C11: materials is ordered by non-increasing totalQuantity, salvageSources
\* by non-increasing salvageScore and recycleSources by non-increasing
\* recycleScore: of two adjacent entries the earlier key is >= the later one.
C11_ListsSorted ==
    Called =>
        /\ NonIncreasing([i \in 1..Len(Data.materials) |-> Num(Data.materials[i].totalQuantity)])
        /\ NonIncreasing([i \in 1..Len(Data.salvageSources) |-> Data.salvageSources[i].salvageScore])
        /\ NonIncreasing([i \in 1..Len(Data.recycleSources) |-> Data.recycleSources[i].recycleScore])

\* the pairs of recipe edges X -> M, M -> N with X a bookmark that is not paused
RecipeChains ==
    {c \in Range(store.crafting_recipes) \X Range(store.crafting_recipes) :
        c[1].item_id \in ActiveBookmarks /\ c[2].item_id = c[1].ingredient_id}

AcceptedId(id) == \E it \in Range(store.items) : it.id = id /\ Accepted(it)

\* C12 as stated: when a bookmark X that is not paused requires M and M has a
\* recipe requiring N (both passing the filter), N is in the materials list.
C12_TransitiveDemand ==
    Called =>
        \A c \in RecipeChains :
            (AcceptedId(c[1].ingredient_id) /\ AcceptedId(c[2].ingredient_id)) =>
                c[2].ingredient_id \in MaterialIdsOf(Data)

\* C12 amended: only the direct ingredients of the bookmarks are resolved.
\* When X requires M and M has a recipe requiring N, that recipe contributes
\* nothing: N is a material only if a bookmark that is not paused requires N
\* directly, and then its totalQuantity is the sum of those direct quantities.
C12_DirectIngredientsOnly ==
    Called =>
        \A c \in RecipeChains :
            LET n == c[2].ingredient_id
            IN  IF ActiveEdgesTo(n) = {}
                THEN n \notin MaterialIdsOf(Data)
                ELSE \A i \in 1..Len(Data.materials) :
                        Data.materials[i].item.id = n =>
                            Data.materials[i].totalQuantity = SumQuantities(ActiveEdgesTo(n))

\* a demanded material M is returned whose own recipe needs N, N passes the
\* filter, no bookmark needs N directly, and N is not returned
C12_Witness ==
    /\ Called
    /\ \E c \in RecipeChains :
        /\ c[1].ingredient_id \in MaterialIdsOf(Data)
        /\ AcceptedId(c[2].ingredient_id)
        /\ ActiveEdgesTo(c[2].ingredient_id) = {}
        /\ c[2].ingredient_id \notin MaterialIdsOf(Data)

\* the recipe edges whose ingredient has no row in the items table
DanglingEdges ==
    {r \in Range(store.crafting_recipes) : r.ingredient_id \notin ItemIds}

\* the store without its dangling recipe edges
StoreWithoutDangling ==
    [store EXCEPT !.crafting_recipes = SelectSeq(store.crafting_recipes, LAMBDA r : r \notin DanglingEdges)]

\* C13: a recipe edge to an ingredient without an items row adds no quantity,
\* no requiredBy entry and no material, and the demand and the materials are
\* those of the same call on the store without such edges.
C13_DanglingEdgeSkipped ==
    Called =>
        LET clean == ResolveDemand(bookmarkedIds, StoreWithoutDangling, filterOptions)
        IN  /\ \A r \in DanglingEdges :
                /\ ~MapHas(callLocals[1].materialQuantityMap, r.ingredient_id)
                /\ r.ingredient_id \notin MaterialIdsOf(Data)
            /\ callLocals[1].materialQuantityMap = clean.qty
            /\ Data.materials = BuildMaterials(clean)

\* a bookmark that is not paused has a dangling edge and other edges that
\* are aggregated
C13_Witness ==
    /\ Called
    /\ \E r \in DanglingEdges : r.item_id \in ActiveBookmarks
    /\ Len(Data.materials) >= 2

TierStripped(name) ==
    IF Len(name) > 1 /\ name[Len(name)] \in {"I", "II", "III", "IV"}
    THEN SubSeq(name, 1, Len(name) - 1)
    ELSE name

\* C15: no two entries of salvageSources and recycleSources together have the
\* same base name (item name without its trailing tier token), hence no two
\* have the same item id; the reported baseName is that base name.
C15_OneEntryPerTierGroup ==
    Called =>
        /\ \A i, j \in 1..Len(Listed) :
            i # j =>
                /\ TierStripped(Listed[i].item.name) # TierStripped(Listed[j].item.name)
                /\ Listed[i].item.id # Listed[j].item.id
        /\ \A i \in 1..Len(Listed) :
            Listed[i].baseName = TierStripped(Listed[i].item.name)

\* the items that the source queries can return for material m
Candidates(m) ==
    {e.item_id : e \in {x \in OutputEdges(store) : x.output_id = m}}
        \ (Range(bookmarkedIds) \cup MaterialIdsOf(Data) \cup filterOptions.hiddenSourceItems)

\* a listed source stands for a second tier variant that also yields a
\* demanded material
C15_Witness ==
    /\ Called
    /\ \E i \in 1..Len(Listed), it \in Range(store.items), m \in MaterialIdsOf(Data) :
        /\ it.id # Listed[i].item.id
        /\ TierStripped(it.name) = Listed[i].baseName
        /\ it.id \in Candidates(m)

\* C16: the step in which aggregateMaterials returns leaves the store, the
\* bookmark set and the filter options (rarityFilters, hiddenSourceItems,
\* pausedBookmarks) as they were.
C16_CallOnlyReads ==
    [][(aggregatedData = <<>> /\ aggregatedData' # <<>>) =>
            /\ store' = store
            /\ bookmarkedIds' = bookmarkedIds
            /\ filterOptions' = filterOptions]_vars

\* a call has returned sources for inputs with paused and hidden entries
C16_Witness ==
    /\ Called
    /\ filterOptions.pausedBookmarks # {}
    /\ filterOptions.hiddenSourceItems # {}
    /\ Len(Data.materials) > 0
    /\ Len(Listed) > 0

\* the demanded material ids, in the insertion order of materialQuantityMap
Demanded == MapKeys(callLocals[1].materialQuantityMap)

\* the distinct member items of the tier group with base name `base`: the
\* candidates with a salvage or recycle edge to a demanded material
GroupMembers(base) ==
    {it \in Range(store.items) :
        /\ TierStripped(it.name) = base
        /\ \E m \in Range(Demanded) : it.id \in Candidates(m)}

\* the edges of `table` from the members of the group to material m
GroupEdges(table, base, m) ==
    {e \in Range(table) :
        e.output_id = m /\ \E it \in GroupMembers(base) : it.id = e.item_id}

\* yields is exactly the map m |-> floor(total / n + 1/2) over the demanded
\* materials for which the group has an edge in `table`
AveragedFrom(yields, table, base) ==
    LET n == Cardinality(GroupMembers(base))
    IN  /\ Range(MapKeys(yields)) \subseteq Range(Demanded)
        /\ \A m \in Range(Demanded) :
            LET es == GroupEdges(table, base, m)
            IN  IF es = {} THEN ~MapHas(yields, m)
                ELSE /\ MapHas(yields, m)
                     /\ MapGet(yields, m) = (2 * SumQuantities(es) + n) \div (2 * n)

\* C19: for every scored tier group and demanded material, the salvage
\* (recycle) yield is the group's summed salvage (recycle) quantity divided by
\* the number of distinct members, rounded to the nearest integer, halves up.
C19_AverageYields ==
    Called =>
        \A i \in 1..Len(Scored) :
            /\ AveragedFrom(Scored[i].salvageYields, store.salvaging_outputs, Scored[i].baseName)
            /\ AveragedFrom(Scored[i].recycleYields, store.recycling_outputs, Scored[i].baseName)

\* a group of two members whose summed salvage yield of 1 is stored as 1 (a
\* half, rounded up), next to a group with a single member
C19_Witness ==
    /\ Called
    /\ \E i \in 1..Len(Scored), m \in Range(Demanded) :
        /\ Cardinality(GroupMembers(Scored[i].baseName)) = 2
        /\ SumQuantities(GroupEdges(store.salvaging_outputs, Scored[i].baseName, m)) = 1
        /\ MapGet(Scored[i].salvageYields, m) = 1
    /\ \E i \in 1..Len(Scored) : Cardinality(GroupMembers(Scored[i].baseName)) = 1

ItemOf(id) == CHOOSE it \in Range(store.items) : it.id = id

\* the rows a source query returns for material m: table order, excluded
\* items left out
RowsFor(table, m) ==
    SelectSeq(table, LAMBDA r :
        /\ r.output_id = m
        /\ r.item_id \notin (Range(bookmarkedIds) \cup Range(Demanded) \cup filterOptions.hiddenSourceItems))

RECURSIVE DiscoveryFrom(_, _)
DiscoveryFrom(table, ms) ==
    IF ms = <<>> THEN <<>>
    ELSE RowsFor(table, Head(ms)) \o DiscoveryFrom(table, Tail(ms))

\* discovery order: the salvage rows of every demanded material, in demand
\* order, before any recycle row
Discovery ==
    DiscoveryFrom(store.salvaging_outputs, Demanded)
        \o DiscoveryFrom(store.recycling_outputs, Demanded)

FirstMember(base) ==
    LET hits == SelectSeq(Discovery, LAMBDA r : TierStripped(ItemOf(r.item_id).name) = base)
    IN  ItemOf(hits[1].item_id)

TotalDemand == SumSeq(MapValues(callLocals[1].materialQuantityMap))

\* C20: the item of a scored tier group is its first member in discovery
\* order, and both scores are those computed from that item's rarity,
\* weight_kg, value and stack size alone.
C20_RepresentativeFirstSeen ==
    Called =>
        \A i \in 1..Len(Scored) :
            LET x == Scored[i]
                rep == FirstMember(x.baseName)
            IN  /\ x.item = rep
                /\ x.salvageScore = SalvageScore(rep, x.salvageYields, callLocals[1].materialQuantityMap, TotalDemand, store, scoringMethod)
                /\ x.recycleScore = RecycleScore(rep, x.recycleYields, callLocals[1].materialQuantityMap, TotalDemand, store, scoringMethod)

\* the representative was found through a salvage edge although another
\* member with a different rarity comes first in the items table
C20_Witness ==
    /\ Called
    /\ \E i \in 1..Len(Scored), j, k \in 1..Len(store.items) :
        /\ store.items[k] = Scored[i].item
        /\ j < k
        /\ store.items[j] \in GroupMembers(Scored[i].baseName)
        /\ store.items[j].rarity # Scored[i].item.rarity

\* C17: aggregateMaterials is invoked only while the status is 'ready' and the
\* database handle is set; 'ready' implies the handle is set; the status
\* leaves 'loading' at most once, to 'ready' or 'error'; and while the status
\* is 'loading' or 'error', or no item is bookmarked, the derived data is null.
C17_InvokedOnlyWhenReady ==
    /\ [](/\ \A r \in invokedWith : r.status = "ready" /\ r.handle
          /\ dbStatus = "ready" => dbHandle
          /\ (dbStatus \in {"loading", "error"} \/ Len(bookmarkedIds) = 0) =>
                /\ Derived(dbStatus, dbHandle, bookmarkedIds, scoringMethod, filterOptions).data = <<>>
                /\ ~gridEffectPending => aggregatedData = <<>>)
    /\ [][/\ dbStatus # "loading" => dbStatus' = dbStatus
          /\ dbStatus' # dbStatus => dbStatus' \in {"ready", "error"}]_vars

\* the database is ready, something is bookmarked and the derived data comes
\* from an invocation of aggregateMaterials
C17_Witness ==
    /\ dbStatus = "ready"
    /\ ~gridEffectPending
    /\ Len(bookmarkedIds) > 0
    /\ invokedWith # {}
    /\ aggregatedData # <<>>
    /\ Len(aggregatedData[1].materials) > 0

\* nothing is scheduled: no auto-save effect and no timer
SaveIdle == ~effectPending /\ pendingTimers = {}

NeedOf(m) == MapGet(callLocals[1].materialQuantityMap, m)

\* rarityPenalty as the claim lists it
StatedRarityPenalty(rarity) ==
    CASE rarity = "Common" -> Num(1)
      [] rarity = "Uncommon" -> Frac(9, 10)
      [] rarity = "Rare" -> Frac(8, 10)
      [] rarity = "Epic" -> Frac(7, 10)
      [] rarity = "Legendary" -> Frac(6, 10)

\* the sum over the yields of yield x need(material) / totalDemand
StatedBase(yields) ==
    SumNum([i \in 1..Len(yields) |->
        Div(Mul(Num(yields[i].v), Num(NeedOf(yields[i].k))), Num(TotalDemand))])

\* W: the sum of yield x weight_kg(material) over the salvage yields or,
\* when that sum is 0, the representative item's own weight_kg
StatedW(x) ==
    LET sum == SumNum([i \in 1..Len(x.salvageYields) |->
                   Mul(Num(x.salvageYields[i].v), ItemOf(x.salvageYields[i].k).weight_kg)])
    IN  IF IsZero(sum) THEN x.item.weight_kg ELSE sum

StatedSalvageScore(x) ==
    LET W == StatedW(x)
        weightFactor == IF scoringMethod = "weight_conscious" THEN Mul(W, W) ELSE W
    IN  Mul(Mul(Mul(Div(StatedBase(x.salvageYields), weightFactor),
                    StatedRarityPenalty(x.item.rarity)),
                Frac(12, 10)),
            SlotBonus(x.item, x.salvageYields, store))

\* C21: for every scored group, salvageScore = (sum over the salvage yields of
\* yield x need / totalDemand) / weightFactor x rarityPenalty x 1.2 x
\* slotBonus, with weightFactor W ('max_yield') or W squared
\* ('weight_conscious').
C21_SalvageScoreFormula ==
    Called => \A i \in 1..Len(Scored) : Scored[i].salvageScore = StatedSalvageScore(Scored[i])

\* under 'weight_conscious' one group is scored with the weight of its yields,
\* its score finite and positive and its rarity penalty below 1, while
\* another group has no salvage yield and falls back to its own weight_kg
C21_Witness ==
    /\ Called
    /\ scoringMethod = "weight_conscious"
    /\ \E i \in 1..Len(Scored) :
        /\ StatedW(Scored[i]) # Scored[i].item.weight_kg
        /\ IsFinite(Scored[i].salvageScore) /\ Gt(Scored[i].salvageScore, Num(0))
        /\ StatedRarityPenalty(Scored[i].item.rarity) # Num(1)
    /\ \E j \in 1..Len(Scored) :
        /\ Len(Scored[j].salvageYields) = 0
        /\ Gt(Scored[j].item.weight_kg, Num(0))
        /\ IsZero(Scored[j].salvageScore)

\* rarityBonus as the claim lists it
StatedRarityBonus(rarity) ==
    CASE rarity = "Common" -> Num(1)
      [] rarity = "Uncommon" -> Frac(11, 10)
      [] rarity = "Rare" -> Frac(115, 100)
      [] rarity = "Epic" -> Frac(12, 10)
      [] rarity = "Legendary" -> Frac(125, 100)

\* 1.15^(n-1)
RECURSIVE StatedMultiBonus(_)
StatedMultiBonus(n) ==
    IF n = 0 THEN Frac(100, 115)
    ELSE IF n = 1 THEN Num(1)
    ELSE Mul(Frac(115, 100), StatedMultiBonus(n - 1))

\* max(0.3, 1 - w/10) for a finite weight w
StatedCarryPenalty(w) ==
    LET p == Sub(Num(1), Div(w, Num(10)))
    IN  IF Gt(Frac(3, 10), p) THEN Frac(3, 10) ELSE p

\* min(1.3, 1 + (v/5000) x 0.1) = min(1.3, 1 + v/50000)
StatedValueBonus(v) ==
    LET b == Frac(50000 + v, 50000)
    IN  IF Gt(b, Frac(13, 10)) THEN Frac(13, 10) ELSE b

StatedRecycleScore(x, method) ==
    LET w == x.item.weight_kg
        n == Len(x.recycleYields)
        common == Mul(StatedRarityBonus(x.item.rarity), StatedMultiBonus(n))
        slotBonus == SlotBonus(x.item, x.recycleYields, store)
    IN  IF method = "max_yield"
        THEN Mul(Mul(Mul(Div(StatedBase(x.recycleYields), w), common), Frac(85, 100)), slotBonus)
        ELSE Mul(Mul(Mul(Mul(Mul(Div(StatedBase(x.recycleYields), Mul(w, w)), common),
                             StatedCarryPenalty(w)),
                         StatedValueBonus(x.item.value)),
                     Frac(85, 100)),
                 slotBonus)

\* the recycleScore the code gives the group of x when its representative's
\* value is v instead
RescoredWithValue(x, v) ==
    RecycleScore([x.item EXCEPT !.value = v], x.recycleYields,
                 callLocals[1].materialQuantityMap, TotalDemand, store, scoringMethod)

\* C22: for every scored group, recycleScore is (recycleBase / w) x rarityBonus
\* x 1.15^(n-1) x 0.85 x slotBonus in 'max_yield' mode, where it does not
\* depend on the value v, and (recycleBase / w^2) x rarityBonus x 1.15^(n-1) x
\* max(0.3, 1 - w/10) x min(1.3, 1 + (v/5000) x 0.1) x 0.85 x slotBonus in
\* 'weight_conscious' mode.
C22_RecycleScoreFormula ==
    Called =>
        \A i \in 1..Len(Scored) :
            /\ Scored[i].recycleScore = StatedRecycleScore(Scored[i], scoringMethod)
            /\ scoringMethod = "max_yield" =>
                 \A v \in {0, 100, 50000} : RescoredWithValue(Scored[i], v) = Scored[i].recycleScore

\* a group with two recycle-yield materials and a finite positive score under
\* 'weight_conscious', whose score changes with the value of its item
C22_Witness ==
    /\ Called
    /\ scoringMethod = "weight_conscious"
    /\ \E i \in 1..Len(Scored) :
        /\ Len(Scored[i].recycleYields) = 2
        /\ IsFinite(Scored[i].recycleScore) /\ Gt(Scored[i].recycleScore, Num(0))
        /\ RescoredWithValue(Scored[i], 100) # RescoredWithValue(Scored[i], 50000)
        /\ StatedRarityBonus(Scored[i].item.rarity) # Num(1)

\* the score before the slot bonus is applied, as the code computes it
SalvageBeforeBonus(x) ==
    Mul(Mul(Div(SalvageBaseScoreOf(x), WeightFactor(EffectiveWeight(x.item, x.salvageYields, store), scoringMethod)),
            RARITY_SALVAGE_PENALTY(x.item.rarity)),
        IMMEDIACY_BONUS)

RecycleBeforeBonus(x) ==
    LET w == x.item.weight_kg
        base == BaseScore(x.recycleYields, callLocals[1].materialQuantityMap, TotalDemand)
        shared == Mul(RARITY_RECYCLE_BONUS(x.item.rarity), multiMaterialBonus(Len(x.recycleYields)))
    IN  IF scoringMethod = "max_yield"
        THEN Mul(Mul(Div(base, w), shared), COMPLEXITY_PENALTY)
        ELSE Mul(Mul(Mul(Mul(Div(base, MathPow(w, 2)), shared), carryWeightPenalty(w)),
                     valueBonus(x.item.value)),
                 COMPLEXITY_PENALTY)

\* C23: for every scored group the slot bonus of the salvage score and that
\* of the recycle score is a number >= 1, whatever the yield map (empty maps
\* and maps whose rounded yields sum to 0 included), and a score that is 0
\* before the bonus is 0 after it.
C23_SlotBonusAtLeastOne ==
    Called =>
        \A i \in 1..Len(Scored) :
            /\ Ge(SlotBonus(Scored[i].item, Scored[i].salvageYields, store), Num(1))
            /\ Ge(SlotBonus(Scored[i].item, Scored[i].recycleYields, store), Num(1))
            /\ IsZero(SalvageBeforeBonus(Scored[i])) => IsZero(Scored[i].salvageScore)
            /\ IsZero(RecycleBeforeBonus(Scored[i])) => IsZero(Scored[i].recycleScore)

NoDuplicates(s) == \A i, j \in 1..Len(s) : i # j => s[i] # s[j]

\* the ids of the final Salvage list followed by those of the final Recycle list
ListedIds == [i \in 1..Len(Listed) |-> Listed[i].item.id]

\* the listed source with this id has material m among its yields
YieldsMaterial(id, m) ==
    \E i \in 1..Len(Listed) :
        /\ Listed[i].item.id = id
        /\ MapHas(Listed[i].salvageYields, m) \/ MapHas(Listed[i].recycleYields, m)

\* C24: every list of materialToSources and of sourceToMaterials is free of
\* duplicates, and materialToSources[m] holds the sources of m in the order of
\* the final Salvage list followed by the final Recycle list.
C24_IndexListsOrdered ==
    Called =>
        /\ \A i \in 1..Len(Data.sourceToMaterials) : NoDuplicates(Data.sourceToMaterials[i].v)
        /\ \A i \in 1..Len(Data.materialToSources) :
            LET m == Data.materialToSources[i].k
                list == Data.materialToSources[i].v
            IN  /\ NoDuplicates(list)
                /\ list = SelectSeq(ListedIds, LAMBDA id : YieldsMaterial(id, m))
                /\ \A a, b \in 1..Len(list) :
                    (/\ \E x \in 1..Len(Data.recycleSources) : Data.recycleSources[x].item.id = list[a]
                     /\ \E y \in 1..Len(Data.salvageSources) : Data.salvageSources[y].item.id = list[b])
                        => b < a

\* a material whose list holds two salvage sources in list order and then a
\* recycle source
C24_Witness ==
    /\ Called
    /\ \E i \in 1..Len(Data.materialToSources) :
        LET list == Data.materialToSources[i].v
        IN  /\ Len(list) >= 3
            /\ \E y \in 1..Len(Data.salvageSources) : Data.salvageSources[y].item.id = list[1]
            /\ \E y \in 1..Len(Data.salvageSources) : Data.salvageSources[y].item.id = list[2]
            /\ \E x \in 1..Len(Data.recycleSources) : Data.recycleSources[x].item.id = list[Len(list)]

\* C27: from the default settings, after any sequence of toggle, togglePause,
\* clear and clearPaused calls the stored pausedItems are a subset of the
\* stored bookmarkedItems and neither list holds a duplicate; togglePause on an
\* item that is not bookmarked changes nothing, and an item that toggle
\* bookmarks is not paused.
C27_PausedSubsetOfBookmarks ==
    /\ [](/\ Range(pausedItems) \subseteq Range(bookmarkedIds)
          /\ NoDuplicates(pausedItems)
          /\ NoDuplicates(bookmarkedIds))
    /\ [][/\ \A id \in BookmarkCandidates :
               (togglePause(id) /\ ~SeqHas(bookmarkedIds, id)) => UNCHANGED vars
          /\ \A id \in BookmarkCandidates :
               (toggle(id) /\ ~SeqHas(bookmarkedIds, id)) =>
                   (SeqHas(bookmarkedIds', id) /\ ~SeqHas(pausedItems', id))]_vars

\* two bookmarks are paused, the later bookmark first
C27_Witness ==
    /\ Len(bookmarkedIds) = 2
    /\ pausedItems = <<bookmarkedIds[2], bookmarkedIds[1]>>

\* C25: after any sequence of setHoveredBookmark, setHoveredMaterial,
\* setHoveredSource and clearAll calls at most one of hoveredBookmarkId,
\* hoveredMaterialId and hoveredSourceId is non-null, and hoveredSourceType is
\* non-null only when hoveredSourceId is non-null.
C25_OneHoverType ==
    /\ Cardinality({f \in {"hoveredBookmarkId", "hoveredMaterialId", "hoveredSourceId"} :
                       hoverStore[f] # <<>>}) <= 1
    /\ hoverStore.hoveredSourceType # <<>> => hoverStore.hoveredSourceId # <<>>

\* a source is hovered in the recycle list while two items are bookmarked
C25_Witness ==
    /\ hoverStore.hoveredSourceId = <<"scrap">>
    /\ hoverStore.hoveredSourceType = <<"recycle">>
    /\ Len(bookmarkedIds) = 2

\* the step is importSettings(file, true) returning success
ImportedWithValidation(file) ==
    /\ importResult' # <<>>
    /\ importResult'[1].success
    /\ \E ok \in BOOLEAN : importSettings(file, TRUE, ok)

\* C26: whatever the database state, importSettings(json, true) keeps exactly
\* the imported bookmarked ids that exist in the items table and returns
\* validatedCount + invalidCount equal to the number of bookmarked ids in the
\* file.
C26_ImportKeepsExistingIds ==
    [][\A file \in ImportFiles :
         ImportedWithValidation(file) =>
            LET imported == file.bookmarks[1].bookmarkedItems[1]
            IN  /\ Range(bookmarkedIds') = Range(imported) \cap ItemIds
                /\ importResult'[1].validatedCount[1] + importResult'[1].invalidCount[1] = Len(imported)]_vars

\* C28: when importSettings returns success = false the settings in memory
\* are what they were before the call and the call writes nothing to
\* localStorage.
C28_FailedImportChangesNothing ==
    [][(importResult' # importResult /\ importResult' # <<>> /\ ~importResult'[1].success) =>
          UNCHANGED <<bookmarkedIds, pausedItems, scoringMethod, filterOptions, storage, lastSaveOk,
                      effectPending, saveTimer, pendingTimers>>]_vars

\* a file with a missing array was rejected after an earlier import had
\* stored bookmarks and another scoring method
C28_Witness ==
    /\ importResult # <<>>
    /\ ~importResult[1].success
    /\ importResult[1].message = <<"Failed to read file">>
    /\ storage # <<>>
    /\ Len(bookmarkedIds) > 0
    /\ scoringMethod = "weight_conscious"

\* the listed source with this id has a yield of at least 1 of material m
YieldsPositive(id, m) ==
    \E i \in 1..Len(Listed) :
        /\ Listed[i].item.id = id
        /\ \/ MapHas(Listed[i].salvageYields, m) /\ MapGet(Listed[i].salvageYields, m) >= 1
           \/ MapHas(Listed[i].recycleYields, m) /\ MapGet(Listed[i].recycleYields, m) >= 1

\* C29: every quantity in salvageYields and recycleYields of a listed source
\* is at least 1, so every pair (m, s) of materialToSources and of
\* sourceToMaterials has a strictly positive averaged yield of m from s.
C29_ListedYieldsPositive ==
    Called =>
        /\ \A i \in 1..Len(Listed) :
            /\ \A j \in 1..Len(Listed[i].salvageYields) : Listed[i].salvageYields[j].v >= 1
            /\ \A j \in 1..Len(Listed[i].recycleYields) : Listed[i].recycleYields[j].v >= 1
        /\ \A i \in 1..Len(Data.materialToSources) :
            \A j \in 1..Len(Data.materialToSources[i].v) :
                YieldsPositive(Data.materialToSources[i].v[j], Data.materialToSources[i].k)
        /\ \A i \in 1..Len(Data.sourceToMaterials) :
            \A j \in 1..Len(Data.sourceToMaterials[i].v) :
                YieldsPositive(Data.sourceToMaterials[i].k, Data.sourceToMaterials[i].v[j])

\* the items that are a recipe ingredient of a bookmark that is not paused,
\* were rejected by the material filter, and are neither bookmarked nor hidden
RejectedIngredients ==
    {it \in Range(store.items) :
        /\ ActiveEdgesTo(it.id) # {}
        /\ ~Accepted(it)
        /\ it.id \notin Range(bookmarkedIds)
        /\ it.id \notin filterOptions.hiddenSourceItems}

\* the item has a salvage or recycle edge to a demanded material
FeedsDemand(it) ==
    \E e \in OutputEdges(store) : e.item_id = it.id /\ SeqHas(Demanded, e.output_id)

\* C30: a filter-rejected ingredient of a non-paused bookmark that is neither
\* bookmarked nor hidden is not among the demanded materials, and when it
\* salvages or recycles into a demanded material its tier group is scored,
\* and is returned in salvageSources or recycleSources unless both of its
\* scores are 0.
C30_RejectedIngredientStaysSource ==
    Called =>
        \A it \in RejectedIngredients :
            /\ ~SeqHas(Demanded, it.id)
            /\ FeedsDemand(it) =>
                \E i \in 1..Len(Scored) :
                    /\ Scored[i].baseName = TierStripped(it.name)
                    /\ ~(IsZero(Scored[i].salvageScore) /\ IsZero(Scored[i].recycleScore)) =>
                        \E j \in 1..Len(Listed) : Listed[j].baseName = Scored[i].baseName

\* Rare is filtered out, the rejected ingredient wires of an active bookmark
\* salvages into the demanded metal_parts and is returned as a source
C30_Witness ==
    /\ Called
    /\ \E it \in RejectedIngredients :
        /\ FeedsDemand(it)
        /\ it.rarity \notin filterOptions.rarityFilters
        /\ \E j \in 1..Len(Listed) : Listed[j].item.id = it.id

====
